---- MODULE Spec2Model ----
(***************************************************************************)
(* A model of upifinder's consistency-verification engine: the Range Set   *)
(* kept by Coze (types.go) and the gap detector checkFiles (check-upi).    *)
(*                                                                         *)
(* Go slices are TLA+ sequences; an index ix of the Go code is 0-based, so *)
(* seen[ix] of the code is seen[ix + 1] here.  Sequence counters are       *)
(* unsigned machine integers: their arithmetic is taken modulo UintMod.    *)
(***************************************************************************)
EXTENDS Integers, Sequences, FiniteSets, TLC

\* Modulus of the unsigned sequence-counter arithmetic (uint32 in the code;
\* narrowed so that the model checker's integers can hold it).
UintMod == 32
\* Largest small sequence value fed to a single Range Set.
MaxSeq == 10
\* Largest sequence value fed to the two Range Sets compared for order
\* independence.
MaxOrd == 4

VARIABLES
    seen,       \* Coze.seen: the Range list of one partition
    inserted,   \* the values passed to Coze.Seen so far
    ret,        \* the result of the last Coze.Seen call
    arg,        \* the argument of the last Coze.Seen call
    seen2,      \* the Range list of a second Coze fed in another order
    inserted2,  \* the values passed to the second Coze so far
    arg2,       \* the argument of the last Seen call on the second Coze
    rs,         \* checkFiles: partition key -> its list of open gaps
    cs,         \* checkFiles: partition key -> the last record stored for it
    qs,         \* checkFiles: partition key -> its Range list
    interval,   \* checkFiles: the minimum gap duration (0: none)
    keep,       \* checkFiles: whether invalid files are kept
    by,         \* checkFiles: the grouping, "upi" or "source"
    stream,     \* the records received from the files channel so far
    pc,         \* checkFiles: "recv" in the loop, "done" once it has returned
    out,        \* the list checkFiles returned
    cur,        \* checkFiles: the record f of the last turn of its loop
    cz,         \* countFiles: partition key -> its Coze
    paths,      \* walkFiles: the number of roots in paths
    max,        \* walkFiles: the capacity of sema
    wpc,        \* walkFiles: the position of its goroutine
    started,    \* walkFiles: the number of group.Go calls made
    sema,       \* walkFiles: the number of values held in the channel sema
    fpc,        \* root -> the position of its worker
    left,       \* root -> the number of entries findFiles has yet to visit
    err,        \* root -> whether findFiles ended with an error
    group,      \* errgroup.Group: the root of the first error, 0 for none
    closes,     \* the number of close(q) executed
    panics,     \* whether a goroutine panicked (a send on the closed q, an
                \* index out of range in parseFilename)
    recv,       \* the number of records the consumer received from q
    found,      \* root -> the number of records findFiles decoded under it
    got,        \* root -> the number of its records the consumer received
    rpc,        \* the consumer of q: "range" in its loop, "returned" after
    result,     \* what the caller of the scan returned: "none" before
    call,       \* the arguments of the function called
    res,        \* what the function called returned
    lpc,        \* the caller of the function: "init", "called", "done"
    box,        \* root -> the tar archive or list file its worker reads
    decoded,    \* root -> the records decoded under it, in decoding order
    hold,       \* root -> the record its worker holds at queue <- f
    taken       \* the records the consumer received from q, in order

rangeVars == <<seen, inserted, ret, arg, seen2, inserted2, arg2>>

checkVars == <<rs, cs, qs, interval, keep, by, stream, pc, out, cur>>

countVars == <<cz>>

scanVars ==
    <<paths, max, wpc, started, sema, fpc, left, err, group, closes, panics,
      recv, found, got, rpc, result>>

callVars == <<call, res, lpc>>

boxVars == <<box, decoded, hold, taken>>

vars == <<rangeVars, checkVars, countVars, scanVars, callVars, boxVars>>

--------------------------------------------------------------------------
\* Unsigned arithmetic

Sub32(a, b) == (a - b + UintMod) % UintMod

Add32(a, b) == (a + b) % UintMod

--------------------------------------------------------------------------
\* Range (types.go)

single(v) == [First |-> v, Last |-> v]

RangeTotal(r) == Sub32(r.Last, r.First)

RangeHasStrict(r, v) == r.First < v /\ r.Last >= v

RangeHas(r, v) == r.First <= v /\ r.Last >= v

\* A bug-seeded variant of the search: the predicate compares with > for >=.
SearchSeenStrict(seen_, v) ==
    LET RECURSIVE go(_, _)
        go(i, j) ==
            IF i < j
            THEN LET h == (i + j) \div 2
                 IN IF ~(seen_[h + 1].Last > v) THEN go(h + 1, j) ELSE go(i, h)
            ELSE i
    IN go(0, Len(seen_))

\* sort.Search(n, func(i) { return seen[i].Last >= v }): the binary search of
\* the standard library, run on the predicate as given.
SearchSeen(seen_, v) ==
    LET RECURSIVE go(_, _)
        go(i, j) ==
            IF i < j
            THEN LET h == (i + j) \div 2
                 IN IF ~(seen_[h + 1].Last >= v) THEN go(h + 1, j) ELSE go(i, h)
            ELSE i
    IN go(0, Len(seen_))

\* A bug-seeded variant: a value above every range always starts a range.
AboveAllNoExtend(seen_, v) == Append(seen_, single(v))

\* inRanges, ix >= n: v is above every range; the last range grows by one or a
\* new last range is appended.
AboveAll(seen_, v) ==
    LET n == Len(seen_)
    IN  IF Sub32(v, seen_[n].Last) = 1
        THEN [seen_ EXCEPT ![n].Last = v]
        ELSE Append(seen_, single(v))

\* A bug-seeded variant: the merge with the range below is forgotten.
JustBelowNoMerge(seen_, ix, v) == [seen_ EXCEPT ![ix + 1].First = v]

\* inRanges, seen[ix].First - v == 1: range ix grows downwards by one, and is
\* merged with range ix-1 when v is also one above that range.
JustBelow(seen_, ix, v) ==
    LET n == Len(seen_)
    IN  IF ix > 0 /\ Sub32(v, seen_[ix].Last) = 1
        THEN SubSeq(seen_, 1, ix - 1)
                \o <<[First |-> seen_[ix].First, Last |-> seen_[ix + 1].Last]>>
                \o SubSeq(seen_, ix + 2, n)
        ELSE [seen_ EXCEPT ![ix + 1].First = v]

\* A bug-seeded variant: the new range is put after range ix, not before it.
ApartBelowMisplaced(seen_, ix, v) ==
    LET n == Len(seen_)
    IN  IF ix = 0 THEN <<single(v)>> \o seen_
        ELSE IF Sub32(v, seen_[ix].Last) = 1
        THEN [seen_ EXCEPT ![ix].Last = v]
        ELSE SubSeq(seen_, 1, ix + 1) \o <<single(v)>> \o SubSeq(seen_, ix + 2, n)

\* inRanges, v below range ix and not next to it: v is put first, or range
\* ix-1 grows upwards by one, or a new range is put between ix-1 and ix.
ApartBelow(seen_, ix, v) ==
    LET n == Len(seen_)
    IN  IF ix = 0 THEN <<single(v)>> \o seen_
        ELSE IF Sub32(v, seen_[ix].Last) = 1
        THEN [seen_ EXCEPT ![ix].Last = v]
        ELSE SubSeq(seen_, 1, ix) \o <<single(v)>> \o SubSeq(seen_, ix + 1, n)

\* inRanges(seen, v): the list with v inserted and whether v was already there.
inRanges(seen_, v) ==
    LET n == Len(seen_)
        ix == SearchSeen(seen_, v)
    IN  IF n = 0 THEN [seen |-> <<single(v)>>, ok |-> FALSE]
        ELSE IF ix >= n THEN [seen |-> AboveAll(seen_, v), ok |-> FALSE]
        ELSE IF RangeHas(seen_[ix + 1], v) THEN [seen |-> seen_, ok |-> TRUE]
        ELSE IF Sub32(seen_[ix + 1].First, v) = 1
        THEN [seen |-> JustBelow(seen_, ix, v), ok |-> FALSE]
        ELSE [seen |-> ApartBelow(seen_, ix, v), ok |-> FALSE]

--------------------------------------------------------------------------
\* Coze queries over the Range list (types.go)

RECURSIVE SumTotals(_)
SumTotals(s) ==
    IF s = <<>> THEN 0 ELSE Add32(RangeTotal(Head(s)), SumTotals(Tail(s)))

\* Coze.Total
Total(seen_) == Add32(SumTotals(seen_), 1)

\* Coze.Range
CozeRange(seen_) ==
    IF Len(seen_) = 0 THEN <<0, 0>>
    ELSE <<seen_[1].First, seen_[Len(seen_)].Last>>

RECURSIVE MissingFrom(_, _)
MissingFrom(seen_, i) ==
    IF i > Len(seen_) THEN 0
    ELSE Sub32(Sub32(seen_[i].First, seen_[i - 1].Last), 1)
            + MissingFrom(seen_, i + 1)

MissingOffByOne(seen_) ==
    IF Len(seen_) = 0 THEN 0 ELSE MissingFrom(seen_, 2) + (Len(seen_) - 1)

\* Coze.Missing
Missing(seen_) ==
    IF Len(seen_) = 0 THEN 0 ELSE MissingFrom(seen_, 2)

MissingRangesFromFirst(seen_) ==
    IF Len(seen_) = 0 THEN <<>>
    ELSE [i \in 1..(Len(seen_) - 1) |->
             [First |-> seen_[i].First, Last |-> seen_[i + 1].First]]

\* Coze.MissingRanges (nil and the empty list are both <<>>)
MissingRanges(seen_) ==
    IF Len(seen_) = 0 THEN <<>>
    ELSE [i \in 1..(Len(seen_) - 1) |->
             [First |-> seen_[i].Last, Last |-> seen_[i + 1].First]]

\* A Coze as declared: no range, and nothing passed to Seen yet.
InitCoze ==
    /\ seen = <<>>
    /\ inserted = {}
    /\ ret = FALSE
    /\ arg = 0
    /\ seen2 = <<>>
    /\ inserted2 = {}
    /\ arg2 = 0

--------------------------------------------------------------------------
\* Records, gaps and the gap detector checkFiles (check-upi)

\* Largest sequence counter of a record on the files channel.
MaxFileSeq == 5
\* Largest acquisition time of a record on the files channel.
MaxTime == 1
\* Number of records received before the channel is closed, at most.
MaxFiles == 3

Sources == {"38"}

Infos == {"XYZ"}

\* File: the fields of a decoded record the gap detector reads; Valid stands
\* for a Path whose extension is not ".bad".
Files ==
    [Source : Sources, Info : Infos, Sequence : 0..MaxFileSeq,
     AcqTime : 0..MaxTime, Valid : BOOLEAN]

ValidFiles == {f \in Files : f.Valid}

\* No record stored for a partition (a key absent from the map cs).
NoFile == [Source |-> "", Info |-> "", Sequence |-> 0, AcqTime |-> 0,
           Valid |-> FALSE]

\* The zero time.Time, for which IsZero holds.
ZeroTime == 0

\* No Coze made for a partition (a key absent from the map of countFiles).
NoCoze ==
    [UPI |-> <<>>, Count |-> 0, Size |-> 0, Invalid |-> 0, Uniq |-> 0,
     Starts |-> ZeroTime, Ends |-> ZeroTime, First |-> 0, Last |-> 0,
     seen |-> <<>>]

\* The nil *Gap.
NoGap == [UPI |-> <<>>, Before |-> 0, After |-> 0, Starts |-> 0, Ends |-> 0]

\* File.String: "source/info"
FileString(f) == <<f.Source, f.Info>>

byUPI(f) == FileString(f)

bySource(f) == <<f.Source>>

\* The ByFunc runCheck selects for the option -b.
\* A bug-seeded variant: every record goes to the partition of its source.
ByAlwaysSource(f) == bySource(f)

By(f) == IF by = "source" THEN bySource(f) ELSE byUPI(f)

\* The sources and the informations of the records of all the streams below.
AllSources == {"38", "39"}

AllInfos == {"XYZ", "ABC"}

\* The keys the partition functions can give.
Keys == (AllSources \X AllInfos) \cup {<<s>> : s \in AllSources}

\* Gap.Count
GapCount(g) == Sub32(Sub32(g.After, g.Before), 1)

\* Gap.Duration
GapDuration(g) == g.Ends - g.Starts

\* A bug-seeded variant: the records are never swapped by acquisition time.
CompareNoSwap(f, p) ==
    IF p = NoFile \/ FileString(f) # FileString(p)
       \/ f.Sequence = Add32(p.Sequence, 1)
    THEN NoGap
    ELSE [UPI |-> FileString(p), Starts |-> p.AcqTime, Ends |-> f.AcqTime,
          Before |-> p.Sequence, After |-> f.Sequence]

\* File.Compare: the gap between the previous record p and f, or nil. When p
\* was acquired after f, it is p.Compare(f): f then gives Before and Starts.
RECURSIVE Compare(_, _)
Compare(f, p) ==
    IF p = NoFile \/ FileString(f) # FileString(p)
       \/ f.Sequence = Add32(p.Sequence, 1)
    THEN NoGap
    ELSE IF p.AcqTime > f.AcqTime THEN Compare(p, f)
    ELSE [UPI |-> FileString(p), Starts |-> p.AcqTime, Ends |-> f.AcqTime,
          Before |-> p.Sequence, After |-> f.Sequence]

\* sort.Search(len(gs), func(i) { return gs[i].After >= f.Sequence })
SearchGaps(gs, v) ==
    LET RECURSIVE go(_, _)
        go(i, j) ==
            IF i < j
            THEN LET h == (i + j) \div 2
                 IN IF ~(gs[h + 1].After >= v) THEN go(h + 1, j) ELSE go(i, h)
            ELSE i
    IN go(0, Len(gs))

\* checkFiles, d <= 1: gap ix now starts at f; it is dropped when nothing is
\* missing in it any more.
Shrink(gs, ix, f) ==
    LET g == [gs[ix + 1] EXCEPT !.Before = f.Sequence, !.Starts = f.AcqTime]
    IN  IF GapCount(g) = 0
        THEN SubSeq(gs, 1, ix) \o SubSeq(gs, ix + 2, Len(gs))
        ELSE [gs EXCEPT ![ix + 1] = g]

\* A bug-seeded variant: the part of the gap below f is dropped, the gap being
\* narrowed to the part above f.
SplitKeepUpper(gs, ix, f) ==
    [gs EXCEPT ![ix + 1].Before = f.Sequence, ![ix + 1].Starts = f.AcqTime]

\* checkFiles, gs[ix].Before < f.Sequence: gap ix now ends at f, and a copy of it
\* starting at f is put right after it.
Split(gs, ix, f) ==
    LET g == [gs[ix + 1] EXCEPT !.Before = f.Sequence, !.Starts = f.AcqTime]
        lower == [gs[ix + 1] EXCEPT !.After = f.Sequence, !.Ends = f.AcqTime]
    IN  SubSeq(gs, 1, ix) \o <<lower, g>> \o SubSeq(gs, ix + 2, Len(gs))

\* checkFiles, the refill of an open gap by a new sequence value: the list of
\* gaps it leaves and whether it handled the record (skip).
Refill(gs, f) ==
    LET ix == SearchGaps(gs, f.Sequence)
    IN  IF Len(gs) > 0 /\ ix < Len(gs)
        THEN IF Sub32(f.Sequence, gs[ix + 1].Before) <= 1
             THEN [gs |-> Shrink(gs, ix, f), skip |-> TRUE]
             ELSE IF gs[ix + 1].Before < f.Sequence
             THEN [gs |-> Split(gs, ix, f), skip |-> TRUE]
             ELSE [gs |-> gs, skip |-> FALSE]
        ELSE [gs |-> gs, skip |-> FALSE]

\* A bug-seeded variant: a gap of one missing record is not appended.
ComparedAboveOne(gs, skip, f, p) ==
    IF p # NoFile /\ f.Sequence > p.Sequence /\ ~skip
    THEN LET g == Compare(f, p)
         IN  IF (g # NoGap /\ GapCount(g) > 1)
                /\ (interval = 0 \/ GapDuration(g) >= interval)
             THEN Append(gs, g)
             ELSE gs
    ELSE gs

\* checkFiles, the comparison with the record stored for the partition: the gap
\* it appends to gs, if any.
Compared(gs, skip, f, p) ==
    IF p # NoFile /\ f.Sequence > p.Sequence /\ ~skip
    THEN LET g == Compare(f, p)
         IN  IF (g # NoGap /\ GapCount(g) > 0)
                /\ (interval = 0 \/ GapDuration(g) >= interval)
             THEN Append(gs, g)
             ELSE gs
    ELSE gs

\* A record of the given size.
Sized(f, z) ==
    [Source |-> f.Source, Info |-> f.Info, Sequence |-> f.Sequence,
     AcqTime |-> f.AcqTime, Valid |-> f.Valid, Size |-> z]

\* A bug-seeded variant: every valid record counts as a new one.
UpdateUniqAlways(c, f) ==
    LET first == c.Starts = ZeroTime \/ c.Starts = f.AcqTime
                    \/ c.Starts > f.AcqTime
        last == c.Ends = ZeroTime \/ c.Ends = f.AcqTime \/ c.Ends < f.AcqTime
        r == inRanges(c.seen, f.Sequence)
    IN  [c EXCEPT
            !.Count = @ + 1,
            !.Size = @ + f.Size,
            !.Starts = IF first THEN f.AcqTime ELSE @,
            !.First = IF first THEN f.Sequence ELSE @,
            !.Ends = IF last THEN f.AcqTime ELSE @,
            !.Last = IF last THEN f.Sequence ELSE @,
            !.seen = IF f.Valid /\ ~r.ok THEN r.seen ELSE @,
            !.Uniq = IF f.Valid THEN @ + 1 ELSE @,
            !.Invalid = IF ~f.Valid THEN @ + 1 ELSE @]

\* A bug-seeded variant: the sequence counter of an invalid record goes to the
\* Range Set too.
UpdateSeenInvalid(c, f) ==
    LET first == c.Starts = ZeroTime \/ c.Starts = f.AcqTime
                    \/ c.Starts > f.AcqTime
        last == c.Ends = ZeroTime \/ c.Ends = f.AcqTime \/ c.Ends < f.AcqTime
        r == inRanges(c.seen, f.Sequence)
    IN  [c EXCEPT
            !.Count = @ + 1,
            !.Size = @ + f.Size,
            !.Starts = IF first THEN f.AcqTime ELSE @,
            !.First = IF first THEN f.Sequence ELSE @,
            !.Ends = IF last THEN f.AcqTime ELSE @,
            !.Last = IF last THEN f.Sequence ELSE @,
            !.seen = IF ~r.ok THEN r.seen ELSE @,
            !.Uniq = IF f.Valid /\ ~r.ok THEN @ + 1 ELSE @,
            !.Invalid = IF ~f.Valid THEN @ + 1 ELSE @]

\* Coze.Update
Update(c, f) ==
    LET first == c.Starts = ZeroTime \/ c.Starts = f.AcqTime
                    \/ c.Starts > f.AcqTime
        last == c.Ends = ZeroTime \/ c.Ends = f.AcqTime \/ c.Ends < f.AcqTime
        r == inRanges(c.seen, f.Sequence)
    IN  [c EXCEPT
            !.Count = @ + 1,
            !.Size = @ + f.Size,
            !.Starts = IF first THEN f.AcqTime ELSE @,
            !.First = IF first THEN f.Sequence ELSE @,
            !.Ends = IF last THEN f.AcqTime ELSE @,
            !.Last = IF last THEN f.Sequence ELSE @,
            !.seen = IF f.Valid /\ ~r.ok THEN r.seen ELSE @,
            !.Uniq = IF f.Valid /\ ~r.ok THEN @ + 1 ELSE @,
            !.Invalid = IF ~f.Valid THEN @ + 1 ELSE @]

\* countFiles, the Coze made for the first record of a partition.
NewCoze(f) ==
    [UPI |-> FileString(f), Count |-> 0, Size |-> 0, Invalid |-> 0, Uniq |-> 0,
     Starts |-> f.AcqTime, Ends |-> f.AcqTime, First |-> f.Sequence,
     Last |-> f.Sequence, seen |-> <<>>]

\* One turn of the loop "for f := range queue" of countFiles.
countFilesStep(f) ==
    LET k == FileString(f)
        c == IF cz[k] = NoCoze THEN NewCoze(f) ELSE cz[k]
    IN  cz' = [cz EXCEPT ![k] = Update(c, f)]

\* countFiles: the map of Cozes as made, no key in it.
InitCountFiles == cz = [n \in Keys |-> NoCoze]

--------------------------------------------------------------------------
\* The scanner (cmd/upifinder/scan.go): walkFiles, its workers, its consumer

\* Bounds: the number of roots, the capacity of sema, the number of entries
\* under one root.
MaxRoots == 2

MaxSlots == 2

MaxEntries == 2

Roots == 1..MaxRoots

\* No function called.
NoCall == <<>>

\* Bound: the number of members of a tar archive, of lines of a list file.
MaxMembers == 2

\* No record held.
NoRec == [root |-> 0, n |-> 0]

\* No tar archive and no list file is being read.
NoBox == [kind |-> "none", left |-> 0, log |-> <<>>, tpc |-> "none",
          f |-> NoRec]

\* No worker reads an archive or a list, no record is decoded or received.
InitBoxes ==
    /\ box = [w \in Roots |-> NoBox]
    /\ decoded = [w \in Roots |-> <<>>]
    /\ hold = [w \in Roots |-> NoRec]
    /\ taken = <<>>

\* walkFiles(paths, upi, max) called on n roots, root w holding e[w] entries:
\* q := make(chan *File), and the goroutine is at the head of its loop.
InitWalkFiles(n, m, e) ==
    /\ paths = n
    /\ max = m
    /\ wpc = "range"
    /\ started = 0
    /\ sema = 0
    /\ fpc = [w \in Roots |-> "none"]
    /\ left = e
    /\ err = [w \in Roots |-> FALSE]
    /\ group = 0
    /\ closes = 0
    /\ panics = FALSE
    /\ recv = 0
    /\ found = [w \in Roots |-> 0]
    /\ got = [w \in Roots |-> 0]
    /\ rpc = "range"
    /\ result = "none"
    /\ InitBoxes

\* No function is looked at.
InitNoCall ==
    /\ call = NoCall
    /\ res = NoCall
    /\ lpc = "init"

\* No scan is looked at: no root.
InitIdle == InitWalkFiles(0, 1, [w \in Roots |-> 0]) /\ InitNoCall

\* A bug-seeded variant: the send on sema never blocks.
CanAcquireAlways == TRUE

\* sema <- struct{}{} can proceed: the buffer of sema is not full.
CanAcquire == sema < max

\* walkFiles: sema <- struct{}{}
Acquire ==
    /\ wpc = "range"
    /\ started < paths
    /\ CanAcquire
    /\ sema' = sema + 1
    /\ wpc' = "go"
    /\ UNCHANGED <<paths, max, started, fpc, left, err, group, closes,
                   panics, recv, rpc, result, found, got>>
    /\ UNCHANGED <<rangeVars, checkVars, countVars, callVars,
                   boxVars>>

\* walkFiles: group.Go(func() error {...}), the worker of the next root starts
\* findFiles.
Go ==
    /\ wpc = "go"
    /\ started' = started + 1
    /\ fpc' = [fpc EXCEPT ![started + 1] = "walk"]
    /\ wpc' = "range"
    /\ UNCHANGED <<paths, max, sema, left, err, group, closes, panics, recv,
                   rpc, result, found, got>>
    /\ UNCHANGED <<rangeVars, checkVars, countVars, callVars,
                   boxVars>>

\* walkFiles: the loop over paths ends.
EndRange ==
    /\ wpc = "range"
    /\ started = paths
    /\ wpc' = "wait"
    /\ UNCHANGED <<paths, max, started, sema, fpc, left, err, group, closes,
                   panics, recv, rpc, result, found, got>>
    /\ UNCHANGED <<rangeVars, checkVars, countVars, callVars,
                   boxVars>>

\* A bug-seeded variant: Wait returns at once.
WaitedAtOnce == TRUE

\* group.Wait() can return: every function given to group.Go has returned.
Waited == \A w \in 1..started : fpc[w] = "done"

\* walkFiles: group.Wait() returns; its result is not kept.
Wait ==
    /\ wpc = "wait"
    /\ Waited
    /\ wpc' = "close"
    /\ UNCHANGED <<paths, max, started, sema, fpc, left, err, group, closes,
                   panics, recv, rpc, result, found, got>>
    /\ UNCHANGED <<rangeVars, checkVars, countVars, callVars,
                   boxVars>>

\* walkFiles: the deferred close(q), as the goroutine returns.
Close ==
    /\ wpc = "close"
    /\ closes' = closes + 1
    /\ wpc' = "end"
    /\ UNCHANGED <<paths, max, started, sema, fpc, left, err, group, panics,
                   recv, rpc, result, found, got>>
    /\ UNCHANGED <<rangeVars, checkVars, countVars, callVars,
                   boxVars>>

\* findFiles: the walk visits an entry that gives no record (a directory, a
\* .xml or .zip file, a name without the upi, a name parseFilename rejects).
Skip(w) ==
    /\ fpc[w] = "walk"
    /\ left[w] > 0
    /\ left' = [left EXCEPT ![w] = @ - 1]
    /\ UNCHANGED <<paths, max, wpc, started, sema, fpc, err, group, closes,
                   panics, recv, rpc, result, found, got>>
    /\ UNCHANGED <<rangeVars, checkVars, countVars, callVars,
                   boxVars>>

\* findFiles: the walk visits an entry that gives a record, and the worker
\* comes to queue <- f.
Found(w) ==
    /\ fpc[w] = "walk"
    /\ left[w] > 0
    /\ left' = [left EXCEPT ![w] = @ - 1]
    /\ found' = [found EXCEPT ![w] = @ + 1]
    /\ fpc' = [fpc EXCEPT ![w] = "send"]
    /\ UNCHANGED <<paths, max, wpc, started, sema, err, group, closes,
                   panics, recv, rpc, result, got>>
    /\ UNCHANGED <<rangeVars, checkVars, countVars, callVars,
                   boxVars>>

\* A bug-seeded variant: a worker whose walk fails returns without receiving
\* from sema.
FailKeepsSlot(w) ==
    /\ fpc[w] = "walk"
    /\ left[w] > 0
    /\ err' = [err EXCEPT ![w] = TRUE]
    /\ fpc' = [fpc EXCEPT ![w] = "done"]
    /\ group' = IF group = 0 THEN w ELSE group
    /\ UNCHANGED <<paths, max, wpc, started, sema, left, closes, panics,
                   recv, rpc, result, found, got>>
    /\ UNCHANGED <<rangeVars, checkVars, countVars, callVars,
                   boxVars>>

\* A bug-seeded variant: the error of one worker stops the walks of the others
\* (a group made with a context that the first error cancels).
FailCancels(w) ==
    /\ fpc[w] = "walk"
    /\ left[w] > 0
    /\ err' = [err EXCEPT ![w] = TRUE]
    /\ fpc' = [v \in Roots |->
                 IF v = w \/ fpc[v] = "walk" THEN "sema" ELSE fpc[v]]
    /\ UNCHANGED <<paths, max, wpc, started, sema, left, group, closes,
                   panics, recv, rpc, result, found, got>>
    /\ UNCHANGED <<rangeVars, checkVars, countVars, callVars,
                   boxVars>>

\* findFiles: the walk function returns an error (the entry cannot be read,
\* opened or decoded), filepath.Walk stops and findFiles returns the error.
Fail(w) ==
    /\ fpc[w] = "walk"
    /\ left[w] > 0
    /\ err' = [err EXCEPT ![w] = TRUE]
    /\ fpc' = [fpc EXCEPT ![w] = "sema"]
    /\ UNCHANGED <<paths, max, wpc, started, sema, left, group, closes,
                   panics, recv, rpc, result, found, got>>
    /\ UNCHANGED <<rangeVars, checkVars, countVars, callVars,
                   boxVars>>

\* findFiles: no entry is left, filepath.Walk returns nil.
Finish(w) ==
    /\ fpc[w] = "walk"
    /\ left[w] = 0
    /\ fpc' = [fpc EXCEPT ![w] = "sema"]
    /\ UNCHANGED <<paths, max, wpc, started, sema, left, err, group, closes,
                   panics, recv, rpc, result, found, got>>
    /\ UNCHANGED <<rangeVars, checkVars, countVars, callVars,
                   boxVars>>

\* The worker: <-sema; return err. The group keeps the first error returned.
Release(w) ==
    /\ fpc[w] = "sema"
    /\ sema > 0
    /\ sema' = sema - 1
    /\ fpc' = [fpc EXCEPT ![w] = "done"]
    /\ group' = IF group = 0 /\ err[w] THEN w ELSE group
    /\ UNCHANGED <<paths, max, wpc, started, left, err, closes, panics, recv,
                   rpc, result, found, got>>
    /\ UNCHANGED <<rangeVars, checkVars, countVars, callVars,
                   boxVars>>

\* queue <- f on the unbuffered channel q: the send completes with a receive
\* of the consumer; on a closed channel it panics.
Send(w) ==
    /\ fpc[w] = "send"
    /\ closes > 0 \/ rpc = "range"
    /\ panics' = (panics \/ closes > 0)
    /\ recv' = IF closes = 0 THEN recv + 1 ELSE recv
    /\ got' = IF closes = 0 THEN [got EXCEPT ![w] = @ + 1] ELSE got
    /\ fpc' = [fpc EXCEPT ![w] = "walk"]
    /\ UNCHANGED <<paths, max, wpc, started, sema, left, err, group, closes,
                   rpc, result, found>>
    /\ UNCHANGED <<rangeVars, checkVars, countVars, callVars,
                   boxVars>>

\* The consumer's loop "for f := range files" ends on the closed channel, and
\* the caller of the scan returns: runCheck ends with "return nil".
CallerReturns ==
    /\ rpc = "range"
    /\ closes > 0
    /\ \A w \in Roots : fpc[w] # "send"
    /\ rpc' = "returned"
    /\ result' = "nil"
    /\ UNCHANGED <<paths, max, wpc, started, sema, fpc, left, err, group,
                   closes, panics, recv, found, got>>
    /\ UNCHANGED <<rangeVars, checkVars, countVars, callVars,
                   boxVars>>

\* One step of the worker of root w.
Worker(w) == Skip(w) \/ Found(w) \/ Fail(w) \/ Finish(w) \/ Release(w)

NextScan ==
    \/ Acquire
    \/ Go
    \/ EndRange
    \/ Wait
    \/ Close
    \/ \E w \in Roots : Worker(w)
    \/ \E w \in Roots : Send(w)
    \/ CallerReturns

--------------------------------------------------------------------------
\* The three maps of checkFiles as made, and its parameters.
InitCheckFiles(i, k, b) ==
    /\ rs = [n \in Keys |-> <<>>]
    /\ cs = [n \in Keys |-> NoFile]
    /\ qs = [n \in Keys |-> <<>>]
    /\ interval = i
    /\ keep = k
    /\ by = b
    /\ stream = <<>>
    /\ pc = "recv"
    /\ out = <<>>
    /\ cur = NoFile

\* The three maps of checkFiles.
Maps == [rs |-> rs, cs |-> cs, qs |-> qs]

\* checkFiles, lines 121-160: the maps st after the record f has gone through
\* the body of the loop.
Integrate(st, f) ==
    LET n == By(f)
        r == inRanges(st.qs[n], f.Sequence)
        filled == Refill(st.rs[n], f)
    IN  IF r.ok
        THEN [st EXCEPT !.cs[n] = f]
        ELSE [rs |-> [st.rs EXCEPT
                        ![n] = Compared(filled.gs, filled.skip, f, st.cs[n])],
              cs |-> [st.cs EXCEPT ![n] = f],
              qs |-> [st.qs EXCEPT ![n] = r.seen]]

\* A bug-seeded variant: an invalid record is skipped whatever keep is.
SkippedAlways(f) == ~f.Valid

\* checkFiles, lines 118-120: if !f.Valid() && !keep { continue }
Skipped(f) == ~f.Valid /\ ~keep

\* One turn of the loop "for f := range files" of checkFiles: what it does to
\* the maps rs, cs and qs.
checkFilesStep(f) ==
    /\ pc = "recv"
    /\ cur' = f
    /\ LET st == IF Skipped(f) THEN Maps ELSE Integrate(Maps, f)
       IN  /\ rs' = st.rs
           /\ cs' = st.cs
           /\ qs' = st.qs
    /\ UNCHANGED <<interval, keep, by, pc, out>>

\* A turn of the loop of checkFiles, the record being appended to the stream
\* received so far.
Receive(f) ==
    /\ Len(stream) < MaxFiles
    /\ stream' = Append(stream, f)
    /\ checkFilesStep(f)
    /\ UNCHANGED rangeVars
    /\ UNCHANGED countVars
    /\ UNCHANGED scanVars
    /\ UNCHANGED callVars
    /\ UNCHANGED boxVars

\* The keys of the map rs that hold gaps (a key with no gap adds nothing to the
\* result).
GapKeys == {n \in Keys : rs[n] # <<>>}

\* The orders in which "for _, vs := range rs" may visit the keys.
KeyOrders ==
    {o \in [1..Cardinality(GapKeys) -> GapKeys] :
        \A i, j \in 1..Cardinality(GapKeys) : i # j => o[i] # o[j]}

RECURSIVE Flatten(_, _)
Flatten(o, i) ==
    IF i > Len(o) THEN <<>> ELSE rs[o[i]] \o Flatten(o, i + 1)

\* The channel is closed: checkFiles returns the gaps of all partitions.
Return ==
    /\ pc = "recv"
    /\ pc' = "done"
    /\ \E o \in KeyOrders : out' = Flatten(o, 1)
    /\ UNCHANGED <<rs, cs, qs, interval, keep, by, stream, cur>>
    /\ UNCHANGED rangeVars
    /\ UNCHANGED countVars
    /\ UNCHANGED scanVars
    /\ UNCHANGED callVars
    /\ UNCHANGED boxVars

NextCheck ==
    \/ \E f \in ValidFiles : Receive(f)
    \/ Return

InitCheck ==
    InitCoze /\ InitCheckFiles(0, FALSE, "upi") /\ InitCountFiles /\ InitIdle

\* check-upi without -k and -i, by UPI, on valid records.
SpecCheck == InitCheck /\ [][NextCheck]_vars

--------------------------------------------------------------------------
\* The gap detector and the aggregator on one stream, with and without -k

\* Bound: the largest sequence counter of the records of this stream.
MaxKeepSeq == 3

KeepFiles == {f \in Files : f.Sequence <= MaxKeepSeq}

Sizes == {1}

\* The next record of the stream goes through one turn of the loop of
\* checkFiles and one turn of the loop of countFiles: the two functions run on
\* the same stream, each on its own maps.
Feed(f, z) ==
    /\ Len(stream) < MaxFiles
    /\ stream' = Append(stream, f)
    /\ checkFilesStep(f)
    /\ countFilesStep(Sized(f, z))
    /\ UNCHANGED rangeVars
    /\ UNCHANGED scanVars
    /\ UNCHANGED callVars
    /\ UNCHANGED boxVars

NextKeep ==
    \/ \E f \in KeepFiles, z \in Sizes : Feed(f, z)
    \/ Return

InitKeep ==
    /\ InitCoze
    /\ \E k \in BOOLEAN : InitCheckFiles(0, k, "upi")
    /\ InitCountFiles
    /\ InitIdle

SpecKeep == InitKeep /\ [][NextKeep]_vars

--------------------------------------------------------------------------
\* The gap detector with a minimum duration

\* Bound: the duration given with -i, in the unit of the acquisition times.
MinInterval == 1

InitInterval ==
    /\ InitCoze
    /\ InitCheckFiles(MinInterval, FALSE, "upi")
    /\ InitCountFiles
    /\ InitIdle

\* check-upi -i on valid records.
SpecInterval == InitInterval /\ [][NextCheck]_vars

--------------------------------------------------------------------------
\* The gap detector and the aggregator on a stream of several partitions

\* Bounds: the largest sequence counter and the latest acquisition time of the
\* records of this stream.
MaxPartSeq == 2

MaxPartTime == 0

\* The source and information of the records of this stream.
PartPairs == {<<"38", "XYZ">>, <<"38", "ABC">>, <<"39", "XYZ">>}

PartFiles ==
    {f \in [Source : AllSources, Info : AllInfos, Sequence : 0..MaxPartSeq,
             AcqTime : 0..MaxPartTime, Valid : {TRUE}] :
        FileString(f) \in PartPairs}

NextParts ==
    \/ \E f \in PartFiles, z \in Sizes : Feed(f, z)
    \/ Return

InitParts ==
    /\ InitCoze
    /\ \E b \in {"upi", "source"} : InitCheckFiles(0, FALSE, b)
    /\ InitCountFiles
    /\ InitIdle

SpecParts == InitParts /\ [][NextParts]_vars

--------------------------------------------------------------------------
\* The gap detector on a stream in order

\* Bounds: the largest sequence counter and the latest acquisition time of the
\* records of this stream.
MaxInSeq == 13

MaxInTime == 3

InFiles ==
    [Source : Sources, Info : Infos, Sequence : 0..MaxInSeq,
     AcqTime : 0..MaxInTime, Valid : {TRUE}]

\* The next record has a larger sequence counter and a later acquisition time
\* than the one before it.
ReceiveInOrder(f) ==
    /\ stream = <<>> \/ (f.Sequence > cur.Sequence /\ f.AcqTime > cur.AcqTime)
    /\ stream' = Append(stream, f)
    /\ checkFilesStep(f)
    /\ UNCHANGED rangeVars
    /\ UNCHANGED countVars
    /\ UNCHANGED scanVars
    /\ UNCHANGED callVars
    /\ UNCHANGED boxVars

NextInOrder ==
    \/ \E f \in InFiles : ReceiveInOrder(f)
    \/ Return

SpecInOrder == InitCheck /\ [][NextInOrder]_vars

--------------------------------------------------------------------------
\* The gap detector on a stream of new values

\* Bounds: the largest sequence counter of the records of this stream, and the
\* number of records received before the channel is closed, at most.
MaxRefillSeq == 6

MaxRefillFiles == 5

\* The records of this stream: each is acquired at the time of its arrival.
RefillFiles ==
    [Source : Sources, Info : Infos, Sequence : 0..MaxRefillSeq,
     AcqTime : 0..MaxRefillFiles, Valid : {TRUE}]

\* The next record carries a sequence counter not received before, in any
\* order of the counters, and is acquired after the records before it.
ReceiveNew(f) ==
    /\ Len(stream) < MaxRefillFiles
    /\ f.AcqTime = Len(stream)
    /\ \A i \in 1..Len(stream) : stream[i].Sequence # f.Sequence
    /\ stream' = Append(stream, f)
    /\ checkFilesStep(f)
    /\ UNCHANGED rangeVars
    /\ UNCHANGED countVars
    /\ UNCHANGED scanVars
    /\ UNCHANGED callVars
    /\ UNCHANGED boxVars

NextRefill ==
    \/ \E f \in RefillFiles : ReceiveNew(f)
    \/ Return

SpecRefill == InitCheck /\ [][NextRefill]_vars

--------------------------------------------------------------------------
\* The scan of any roots

\* walkFiles called on any number of roots of any numbers of entries, with any
\* capacity of sema from 1.
InitScan ==
    /\ InitCoze
    /\ InitCheckFiles(0, FALSE, "upi")
    /\ InitCountFiles
    /\ \E n \in 0..MaxRoots, m \in 1..MaxSlots, e \in [Roots -> 0..MaxEntries] :
          /\ \A w \in Roots : w > n => e[w] = 0
          /\ InitWalkFiles(n, m, e)
    /\ InitNoCall

SpecScan == InitScan /\ [][NextScan]_vars

\* The scan when every goroutine that can run does run in the end, and the
\* consumer receives whenever a worker sends.
SpecScanFair ==
    /\ InitScan
    /\ [][NextScan]_vars
    /\ WF_vars(Acquire)
    /\ WF_vars(Go)
    /\ WF_vars(EndRange)
    /\ WF_vars(Wait)
    /\ WF_vars(Close)
    /\ \A w \in Roots : WF_vars(Worker(w)) /\ WF_vars(Send(w))
    /\ WF_vars(CallerReturns)

--------------------------------------------------------------------------
\* The scan of roots that hold plain files, tar archives and list files

\* The next record decoded under the root w.
NextRec(w) == [root |-> w, n |-> Len(decoded[w]) + 1]

\* The archive or list the worker of root w opens: m members or lines to read.
Opened(k, m) ==
    [kind |-> k, left |-> m, log |-> <<>>,
     tpc |-> IF k = "tar" THEN "next" ELSE "none", f |-> NoRec]

\* The archive or list b once its next member or line is read with outcome o.
Read(b, o) == [b EXCEPT !.left = @ - 1, !.log = Append(@, o)]

\* findFiles, default case: the walk visits a plain file that gives a record,
\* and the worker comes to queue <- f.
FoundFile(w) ==
    /\ fpc[w] = "walk"
    /\ left[w] > 0
    /\ left' = [left EXCEPT ![w] = @ - 1]
    /\ found' = [found EXCEPT ![w] = @ + 1]
    /\ decoded' = [decoded EXCEPT ![w] = Append(@, NextRec(w))]
    /\ hold' = [hold EXCEPT ![w] = NextRec(w)]
    /\ fpc' = [fpc EXCEPT ![w] = "send"]
    /\ UNCHANGED <<paths, max, wpc, started, sema, err, group, closes,
                   panics, recv, rpc, result, got>>
    /\ UNCHANGED <<box, taken>>
    /\ UNCHANGED <<rangeVars, checkVars, countVars, callVars>>

\* findFiles, case ".tar": scanTar opens the archive, makes its channel and
\* starts its goroutine; the worker comes to "for f := range fs".
OpenTar(w) ==
    /\ fpc[w] = "walk"
    /\ left[w] > 0
    /\ left' = [left EXCEPT ![w] = @ - 1]
    /\ \E m \in 0..MaxMembers : box' = [box EXCEPT ![w] = Opened("tar", m)]
    /\ fpc' = [fpc EXCEPT ![w] = "tar"]
    /\ UNCHANGED <<paths, max, wpc, started, sema, err, group, closes,
                   panics, recv, rpc, result, found, got>>
    /\ UNCHANGED <<decoded, hold, taken>>
    /\ UNCHANGED <<rangeVars, checkVars, countVars, callVars>>

\* scanTar: the next member is a .xml file or a name parseFilename rejects.
TarSkip(w) ==
    /\ box[w].kind = "tar"
    /\ box[w].tpc = "next"
    /\ box[w].left > 0
    /\ box' = [box EXCEPT ![w] = Read(@, "nothing")]
    /\ UNCHANGED <<decoded, hold, taken>>
    /\ UNCHANGED <<rangeVars, checkVars, countVars, scanVars, callVars>>

\* scanTar: the next member is decoded, and the goroutine comes to q <- f.
TarRecord(w) ==
    /\ box[w].kind = "tar"
    /\ box[w].tpc = "next"
    /\ box[w].left > 0
    /\ box' = [box EXCEPT ![w] =
                 [Read(@, "record") EXCEPT !.tpc = "send", !.f = NextRec(w)]]
    /\ decoded' = [decoded EXCEPT ![w] = Append(@, NextRec(w))]
    /\ UNCHANGED <<hold, taken>>
    /\ UNCHANGED <<rangeVars, checkVars, countVars, scanVars, callVars>>

\* A bug-seeded variant: the error of parseFilename is sent to the worker,
\* whose walk ends with it.
TarErrorFails(w) ==
    /\ box[w].kind = "tar"
    /\ box[w].tpc = "next"
    /\ box[w].left > 0
    /\ fpc[w] = "tar"
    /\ box' = [box EXCEPT ![w] = NoBox]
    /\ err' = [err EXCEPT ![w] = TRUE]
    /\ fpc' = [fpc EXCEPT ![w] = "sema"]
    /\ UNCHANGED <<paths, max, wpc, started, sema, left, group, closes,
                   panics, recv, rpc, result, found, got>>
    /\ UNCHANGED <<decoded, hold, taken>>
    /\ UNCHANGED <<rangeVars, checkVars, countVars, callVars>>

\* scanTar: parseFilename returns an error on the next member: break, and the
\* deferred function closes the archive and the channel.
TarError(w) ==
    /\ box[w].kind = "tar"
    /\ box[w].tpc = "next"
    /\ box[w].left > 0
    /\ box' = [box EXCEPT ![w] = [Read(@, "error") EXCEPT !.tpc = "closed"]]
    /\ UNCHANGED <<decoded, hold, taken>>
    /\ UNCHANGED <<rangeVars, checkVars, countVars, scanVars, callVars>>

\* scanTar: t.Next fails on the next member, or io.CopyN failed on the one
\* before it: break, and the deferred function closes the channel.
TarBroken(w) ==
    /\ box[w].kind = "tar"
    /\ box[w].tpc = "next"
    /\ box[w].left > 0
    /\ box' = [box EXCEPT ![w] = [Read(@, "broken") EXCEPT !.tpc = "closed"]]
    /\ UNCHANGED <<decoded, hold, taken>>
    /\ UNCHANGED <<rangeVars, checkVars, countVars, scanVars, callVars>>

\* scanTar: t.Next returns io.EOF: break, and the channel is closed.
TarEOF(w) ==
    /\ box[w].kind = "tar"
    /\ box[w].tpc = "next"
    /\ box[w].left = 0
    /\ box' = [box EXCEPT ![w].tpc = "closed"]
    /\ UNCHANGED <<decoded, hold, taken>>
    /\ UNCHANGED <<rangeVars, checkVars, countVars, scanVars, callVars>>

\* q <- f of scanTar meets "for f := range fs" of findFiles on the unbuffered
\* channel: the worker comes to queue <- f, the goroutine to its next member.
TarPass(w) ==
    /\ box[w].kind = "tar"
    /\ box[w].tpc = "send"
    /\ fpc[w] = "tar"
    /\ hold' = [hold EXCEPT ![w] = box[w].f]
    /\ box' = [box EXCEPT ![w].tpc = "next", ![w].f = NoRec]
    /\ fpc' = [fpc EXCEPT ![w] = "send"]
    /\ UNCHANGED <<paths, max, wpc, started, sema, left, err, group, closes,
                   panics, recv, rpc, result, found, got>>
    /\ UNCHANGED <<decoded, taken>>
    /\ UNCHANGED <<rangeVars, checkVars, countVars, callVars>>

\* findFiles: "for f := range fs" ends on the closed channel, and the walk
\* function returns nil.
TarDone(w) ==
    /\ box[w].kind = "tar"
    /\ box[w].tpc = "closed"
    /\ fpc[w] = "tar"
    /\ box' = [box EXCEPT ![w] = NoBox]
    /\ fpc' = [fpc EXCEPT ![w] = "walk"]
    /\ UNCHANGED <<paths, max, wpc, started, sema, left, err, group, closes,
                   panics, recv, rpc, result, found, got>>
    /\ UNCHANGED <<decoded, hold, taken>>
    /\ UNCHANGED <<rangeVars, checkVars, countVars, callVars>>

\* findFiles, case ".lst": the file is opened and the worker comes to the loop
\* over its lines.
OpenLst(w) ==
    /\ fpc[w] = "walk"
    /\ left[w] > 0
    /\ left' = [left EXCEPT ![w] = @ - 1]
    /\ \E m \in 0..MaxMembers : box' = [box EXCEPT ![w] = Opened("lst", m)]
    /\ fpc' = [fpc EXCEPT ![w] = "lst"]
    /\ UNCHANGED <<paths, max, wpc, started, sema, err, group, closes,
                   panics, recv, rpc, result, found, got>>
    /\ UNCHANGED <<decoded, hold, taken>>
    /\ UNCHANGED <<rangeVars, checkVars, countVars, callVars>>

\* findFiles: the next line is empty, names a .xml file, or is a name
\* parseFilename rejects.
LineSkip(w) ==
    /\ fpc[w] = "lst"
    /\ box[w].left > 0
    /\ box' = [box EXCEPT ![w] = Read(@, "nothing")]
    /\ UNCHANGED <<decoded, hold, taken>>
    /\ UNCHANGED <<rangeVars, checkVars, countVars, scanVars, callVars>>

\* A bug-seeded variant: the error of parseFilename on a line ends the reading
\* of the list.
LineErrorEnds(w) ==
    /\ fpc[w] = "lst"
    /\ box[w].left > 0
    /\ box' = [box EXCEPT ![w] = [Read(@, "error") EXCEPT !.left = 0]]
    /\ UNCHANGED <<decoded, hold, taken>>
    /\ UNCHANGED <<rangeVars, checkVars, countVars, scanVars, callVars>>

\* findFiles: parseFilename returns an error on the next line: continue.
LineError(w) ==
    /\ fpc[w] = "lst"
    /\ box[w].left > 0
    /\ box' = [box EXCEPT ![w] = Read(@, "error")]
    /\ UNCHANGED <<decoded, hold, taken>>
    /\ UNCHANGED <<rangeVars, checkVars, countVars, scanVars, callVars>>

\* findFiles: the next line is decoded, and the worker comes to queue <- f.
LineRecord(w) ==
    /\ fpc[w] = "lst"
    /\ box[w].left > 0
    /\ box' = [box EXCEPT ![w] = Read(@, "record")]
    /\ decoded' = [decoded EXCEPT ![w] = Append(@, NextRec(w))]
    /\ hold' = [hold EXCEPT ![w] = NextRec(w)]
    /\ found' = [found EXCEPT ![w] = @ + 1]
    /\ fpc' = [fpc EXCEPT ![w] = "send"]
    /\ UNCHANGED <<paths, max, wpc, started, sema, left, err, group, closes,
                   panics, recv, rpc, result, got>>
    /\ UNCHANGED taken
    /\ UNCHANGED <<rangeVars, checkVars, countVars, callVars>>

\* findFiles: s.Scan() returns false at the end of the list, s.Err() is nil.
LstEnd(w) ==
    /\ fpc[w] = "lst"
    /\ box[w].left = 0
    /\ box' = [box EXCEPT ![w] = NoBox]
    /\ fpc' = [fpc EXCEPT ![w] = "walk"]
    /\ UNCHANGED <<paths, max, wpc, started, sema, left, err, group, closes,
                   panics, recv, rpc, result, found, got>>
    /\ UNCHANGED <<decoded, hold, taken>>
    /\ UNCHANGED <<rangeVars, checkVars, countVars, callVars>>

\* findFiles: s.Scan() returns false on a read error, and the walk function
\* returns s.Err(): the walk of the root ends.
LstFail(w) ==
    /\ fpc[w] = "lst"
    /\ box[w].left > 0
    /\ box' = [box EXCEPT ![w] = NoBox]
    /\ err' = [err EXCEPT ![w] = TRUE]
    /\ fpc' = [fpc EXCEPT ![w] = "sema"]
    /\ UNCHANGED <<paths, max, wpc, started, sema, left, group, closes,
                   panics, recv, rpc, result, found, got>>
    /\ UNCHANGED <<decoded, hold, taken>>
    /\ UNCHANGED <<rangeVars, checkVars, countVars, callVars>>

\* The worker of root w, or the goroutine of its archive, is about to call
\* parseFilename on a name.
Decoding(w) ==
    \/ fpc[w] = "walk" /\ left[w] > 0
    \/ fpc[w] = "lst" /\ box[w].left > 0
    \/ box[w].kind = "tar" /\ box[w].tpc = "next" /\ box[w].left > 0

\* parseFilename indexes outside the fields of the name (types.go, line 239):
\* the goroutine panics, the deferred recover of main (main.go, line 59) being
\* in another goroutine, and the program ends with all its goroutines.
Crash(w) ==
    /\ Decoding(w)
    /\ panics' = TRUE
    /\ wpc' = "dead"
    /\ rpc' = "dead"
    /\ fpc' = [v \in Roots |-> "dead"]
    /\ box' = [v \in Roots |-> [box[v] EXCEPT !.tpc = "dead"]]
    /\ UNCHANGED <<paths, max, started, sema, left, err, group, closes, recv,
                   result, found, got>>
    /\ UNCHANGED <<decoded, hold, taken>>
    /\ UNCHANGED <<rangeVars, checkVars, countVars, callVars>>

\* Where the worker goes on once its send on queue is done: the loop over the
\* channel of the archive, the loop over the lines of the list, or the walk.
After(b) ==
    IF b.kind = "tar" THEN "tar" ELSE IF b.kind = "lst" THEN "lst" ELSE "walk"

\* A bug-seeded variant: the consumer takes the record twice.
DeliverTwice(w) ==
    /\ fpc[w] = "send"
    /\ hold[w] # NoRec
    /\ closes = 0
    /\ rpc = "range"
    /\ recv' = recv + 1
    /\ got' = [got EXCEPT ![w] = @ + 1]
    /\ taken' = taken \o <<hold[w], hold[w]>>
    /\ hold' = [hold EXCEPT ![w] = NoRec]
    /\ fpc' = [fpc EXCEPT ![w] = After(box[w])]
    /\ UNCHANGED <<paths, max, wpc, started, sema, left, err, group, closes,
                   panics, rpc, result, found>>
    /\ UNCHANGED <<box, decoded>>
    /\ UNCHANGED <<rangeVars, checkVars, countVars, callVars>>

\* queue <- f on the unbuffered channel q meets the receive of the consumer,
\* which takes the record (q is closed only after every worker has returned).
Deliver(w) ==
    /\ fpc[w] = "send"
    /\ hold[w] # NoRec
    /\ closes = 0
    /\ rpc = "range"
    /\ recv' = recv + 1
    /\ got' = [got EXCEPT ![w] = @ + 1]
    /\ taken' = Append(taken, hold[w])
    /\ hold' = [hold EXCEPT ![w] = NoRec]
    /\ fpc' = [fpc EXCEPT ![w] = After(box[w])]
    /\ UNCHANGED <<paths, max, wpc, started, sema, left, err, group, closes,
                   panics, rpc, result, found>>
    /\ UNCHANGED <<box, decoded>>
    /\ UNCHANGED <<rangeVars, checkVars, countVars, callVars>>

\* One step of the goroutine of scanTar under the root w.
Untar(w) ==
    TarSkip(w) \/ TarRecord(w) \/ TarError(w) \/ TarBroken(w) \/ TarEOF(w)

\* One step of the worker of root w.
Walker(w) ==
    \/ Skip(w)
    \/ FoundFile(w)
    \/ Fail(w)
    \/ Finish(w)
    \/ Release(w)
    \/ OpenTar(w)
    \/ TarPass(w)
    \/ TarDone(w)
    \/ OpenLst(w)
    \/ LineSkip(w)
    \/ LineError(w)
    \/ LineRecord(w)
    \/ LstEnd(w)
    \/ LstFail(w)

NextBoxes ==
    \/ Acquire
    \/ Go
    \/ EndRange
    \/ Wait
    \/ Close
    \/ \E w \in Roots : Walker(w)
    \/ \E w \in Roots : Untar(w)
    \/ \E w \in Roots : Deliver(w)
    \/ \E w \in Roots : Crash(w)
    \/ CallerReturns

\* walkFiles called on all the roots, each of any number of entries, with as
\* many slots in sema as there are roots: the workers run together.
InitBoxScan ==
    /\ InitCoze
    /\ InitCheckFiles(0, FALSE, "upi")
    /\ InitCountFiles
    /\ \E e \in [Roots -> 0..MaxEntries] : InitWalkFiles(MaxRoots, MaxRoots, e)
    /\ InitNoCall

SpecBoxes == InitBoxScan /\ [][NextBoxes]_vars

--------------------------------------------------------------------------
\* listPaths (cmd/upifinder/scan.go) and its caller runCheck

\* Bounds: the units of time in a day and the days in a year of the calendar
\* of the model, the longest list of roots, the largest period, and the span
\* of the dates given.
TicksPerDay == 2

DaysPerYear == 3

MaxPaths == 2

MaxPeriod == 2

WhenSpan == 5

\* The earliest date given: period days before it are not before the year 1.
MinWhen == MaxPeriod * TicksPerDay

MaxWhen == MinWhen + WhenSpan

\* Day = time.Hour * 24
Day == TicksPerDay

\* Time.Year and Time.YearDay
Year(t) == 1 + ((t \div TicksPerDay) \div DaysPerYear)

YearDay(t) == 1 + ((t \div TicksPerDay) % DaysPerYear)

\* The decimal digits of n >= 0.
RECURSIVE Decimal(_)
Decimal(n) == IF n < 10 THEN <<n>> ELSE Append(Decimal(n \div 10), n % 10)

\* fmt.Sprintf("%0wd", n) for n >= 0
Sprintf0(w, n) ==
    LET d == Decimal(n)
    IN  [i \in 1..(w - Len(d)) |-> 0] \o d

\* filepath.Join(p, y, d) of a root and the two formatted numbers.
Join(p, y, d) == <<p, y, d>>

\* listPaths, lines 35-41: the loop "for dtstart.Before(dtend)".
RECURSIVE Expand(_, _, _)
Expand(ps, dtstart, dtend) ==
    IF dtstart < dtend
    THEN [i \in 1..Len(ps) |->
             Join(ps[i], Sprintf0(4, Year(dtstart)),
                  Sprintf0(3, YearDay(dtstart)))]
         \o Expand(ps, dtstart + Day, dtend)
    ELSE <<>>

\* A bug-seeded variant: the period is accepted with both dates and ignored.
listPathsNoReject(ps, period, dtstart, dtend, now) ==
    IF dtstart # ZeroTime /\ dtend # ZeroTime
    THEN [ps |-> Expand(ps, dtstart, dtend), err |-> FALSE]
    ELSE [ps |-> ps, err |-> FALSE]

\* A bug-seeded variant: the last day of the window is left out.
listPathsShort(ps, period, dtstart, dtend, now) ==
    IF period > 0 /\ dtstart # ZeroTime /\ dtend # ZeroTime
    THEN [ps |-> <<>>, err |-> TRUE]
    ELSE IF dtstart # ZeroTime /\ dtend # ZeroTime
    THEN [ps |-> Expand(ps, dtstart, dtend - Day), err |-> FALSE]
    ELSE IF period > 0 /\ dtstart # ZeroTime /\ dtend = ZeroTime
    THEN [ps |-> Expand(ps, dtstart, dtstart + Day * period), err |-> FALSE]
    ELSE IF period > 0 /\ dtstart = ZeroTime /\ dtend # ZeroTime
    THEN [ps |-> Expand(ps, dtend - Day * period, dtend), err |-> FALSE]
    ELSE IF period > 0 /\ dtstart = ZeroTime /\ dtend = ZeroTime
    THEN [ps |-> Expand(ps, now - Day * period, now), err |-> FALSE]
    ELSE [ps |-> ps, err |-> FALSE]

\* listPaths(paths, period, dtstart, dtend), time.Now() giving now.
listPaths(ps, period, dtstart, dtend, now) ==
    IF period > 0 /\ dtstart # ZeroTime /\ dtend # ZeroTime
    THEN [ps |-> <<>>, err |-> TRUE]
    ELSE IF dtstart # ZeroTime /\ dtend # ZeroTime
    THEN [ps |-> Expand(ps, dtstart, dtend), err |-> FALSE]
    ELSE IF period > 0 /\ dtstart # ZeroTime /\ dtend = ZeroTime
    THEN [ps |-> Expand(ps, dtstart, dtstart + Day * period), err |-> FALSE]
    ELSE IF period > 0 /\ dtstart = ZeroTime /\ dtend # ZeroTime
    THEN [ps |-> Expand(ps, dtend - Day * period, dtend), err |-> FALSE]
    ELSE IF period > 0 /\ dtstart = ZeroTime /\ dtend = ZeroTime
    THEN [ps |-> Expand(ps, now - Day * period, now), err |-> FALSE]
    ELSE [ps |-> ps, err |-> FALSE]

ListRoots == {"a", "b"}

PathLists == UNION {[1..n -> ListRoots] : n \in 0..MaxPaths}

Whens == {ZeroTime} \cup (MinWhen..MaxWhen)

\* runCheck is about to call listPaths with the arguments of the command line;
\* walkFiles is not called yet.
InitList ==
    /\ InitCoze
    /\ InitCheckFiles(0, FALSE, "upi")
    /\ InitCountFiles
    /\ paths = 0
    /\ max = 1
    /\ wpc = "none"
    /\ started = 0
    /\ sema = 0
    /\ fpc = [w \in Roots |-> "none"]
    /\ left = [w \in Roots |-> 0]
    /\ InitBoxes
    /\ err = [w \in Roots |-> FALSE]
    /\ group = 0
    /\ closes = 0
    /\ panics = FALSE
    /\ recv = 0
    /\ found = [w \in Roots |-> 0]
    /\ got = [w \in Roots |-> 0]
    /\ rpc = "range"
    /\ result = "none"
    /\ call \in [paths : PathLists, period : (-1)..MaxPeriod, dtstart : Whens,
                  dtend : Whens, now : MinWhen..MaxWhen]
    /\ res = NoCall
    /\ lpc = "init"

\* runCheck: paths, err := listPaths(cmd.Flag.Args(), *period, start, end)
CallListPaths ==
    /\ lpc = "init"
    /\ res' = listPaths(call.paths, call.period, call.dtstart, call.dtend,
                        call.now)
    /\ lpc' = "called"
    /\ UNCHANGED <<call, rangeVars, checkVars, countVars, scanVars,
                   boxVars>>

\* runCheck: if err != nil { return err }
ReturnError ==
    /\ lpc = "called"
    /\ res.err
    /\ result' = "error"
    /\ lpc' = "done"
    /\ UNCHANGED <<paths, max, wpc, started, sema, fpc, left, err, group,
                   closes, panics, recv, found, got, rpc>>
    /\ UNCHANGED <<call, res, rangeVars, checkVars, countVars,
                   boxVars>>

\* runCheck: walkFiles(paths, *upi, 1) is called on the paths listed.
WalkFiles ==
    /\ lpc = "called"
    /\ ~res.err
    /\ paths' = Len(res.ps)
    /\ wpc' = "range"
    /\ lpc' = "done"
    /\ UNCHANGED <<max, started, sema, fpc, left, err, group, closes, panics,
                   recv, found, got, rpc, result>>
    /\ UNCHANGED <<call, res, rangeVars, checkVars, countVars,
                   boxVars>>

NextList == CallListPaths \/ ReturnError \/ WalkFiles

SpecList == InitList /\ [][NextList]_vars

--------------------------------------------------------------------------
\* The decoder (types.go): parseFilename on a base name

\* A base name is the sequence of its fields, the parts that strings.Split
\* finds between its "_"; a field is the sequence of its characters.

Digits == {"0", "1", "2", "3", "4", "5", "6", "7", "8", "9"}

Lower ==
    {"a", "b", "c", "d", "e", "f", "g", "h", "i", "j", "k", "l", "m", "n", "o",
     "p", "q", "r", "s", "t", "u", "v", "w", "x", "y", "z"}

Upper ==
    {"A", "B", "C", "D", "E", "F", "G", "H", "I", "J", "K", "L", "M", "N", "O",
     "P", "Q", "R", "S", "T", "U", "V", "W", "X", "Y", "Z"}

\* The value of a decimal digit, and of a digit of base 16.
DecValue ==
    "0" :> 0 @@ "1" :> 1 @@ "2" :> 2 @@ "3" :> 3 @@ "4" :> 4 @@ "5" :> 5
    @@ "6" :> 6 @@ "7" :> 7 @@ "8" :> 8 @@ "9" :> 9

HexValue ==
    DecValue @@ "a" :> 10 @@ "b" :> 11 @@ "c" :> 12 @@ "d" :> 13 @@ "e" :> 14
    @@ "f" :> 15 @@ "A" :> 10 @@ "B" :> 11 @@ "C" :> 12 @@ "D" :> 13
    @@ "E" :> 14 @@ "F" :> 15

\* Keep (utils.go): every byte of the name is a letter, a digit, '-', '_' or
\* '.' (the '_' are the separators of the fields).
Keep(n) ==
    \A i \in 1..Len(n) : \A j \in 1..Len(n[i]) :
        n[i][j] \in Lower \cup Upper \cup Digits \cup {"-", "_", "."}

\* strings.TrimLeft(s, "0")
RECURSIVE TrimLeft0(_)
TrimLeft0(s) == IF s # <<>> /\ s[1] = "0" THEN TrimLeft0(Tail(s)) ELSE s

\* The number the digits s[i], s[i+1], ... add to acc in the given base, not
\* computed further once it is above most.
RECURSIVE Accumulate(_, _, _, _, _, _)
Accumulate(s, i, acc, value, base, most) ==
    IF i > Len(s) \/ acc > most THEN acc
    ELSE Accumulate(s, i + 1, acc * base + value[s[i]], value, base, most)

\* The largest int8.
MaxInt8 == 127

\* strconv.ParseInt(s, 16, 8) of a string without sign.
ParseInt16(s) ==
    IF s = <<>> \/ \E i \in 1..Len(s) : s[i] \notin DOMAIN HexValue
    THEN [ok |-> FALSE, n |-> 0]
    ELSE LET n == Accumulate(s, 1, 0, HexValue, 16, MaxInt8)
         IN  IF n > MaxInt8 THEN [ok |-> FALSE, n |-> 0]
             ELSE [ok |-> TRUE, n |-> n]

\* strconv.ParseUint(s, 10, 32), the largest uint32 being UintMod - 1.
ParseUint10(s) ==
    IF s = <<>> \/ \E i \in 1..Len(s) : s[i] \notin Digits
    THEN [ok |-> FALSE, n |-> 0]
    ELSE LET n == Accumulate(s, 1, 0, DecValue, 10, UintMod - 1)
         IN  IF n > UintMod - 1 THEN [ok |-> FALSE, n |-> 0]
             ELSE [ok |-> TRUE, n |-> n]

\* The number of days of a month.
DaysIn(year, month) ==
    IF month = 2
    THEN IF year % 4 = 0 /\ (year % 100 # 0 \/ year % 400 = 0) THEN 29 ELSE 28
    ELSE IF month \in {4, 6, 9, 11} THEN 30 ELSE 31

\* time.Parse("20060102150405", s): fourteen digits that make a date and a time
\* of day.
ParseTime(s) ==
    IF Len(s) # 14 \/ \E i \in 1..Len(s) : s[i] \notin Digits
    THEN [ok |-> FALSE, t |-> <<>>]
    ELSE LET num(i, j) == Accumulate(SubSeq(s, i, j), 1, 0, DecValue, 10, 9999)
             t == [year |-> num(1, 4), month |-> num(5, 6), day |-> num(7, 8),
                   hour |-> num(9, 10), min |-> num(11, 12),
                   sec |-> num(13, 14)]
         IN  IF /\ t.month \in 1..12
                /\ t.day \in 1..DaysIn(t.year, t.month)
                /\ t.hour < 24
                /\ t.min < 60
                /\ t.sec < 60
             THEN [ok |-> TRUE, t |-> t]
             ELSE [ok |-> FALSE, t |-> <<>>]

\* OriImages and OriSciences: 0x33, 0x34, 0x37, 0x38, 0x42 ... 0x47, and
\* 0x35, 0x36, 0x39, 0x40, 0x41, 0x51.
OriImages == <<51, 52, 55, 56, 66, 67, 68, 69, 70, 71>>

OriSciences == <<53, 54, 57, 64, 65, 81>>

\* sort.SearchInts(a, x)
SearchInts(a, x) ==
    LET RECURSIVE go(_, _)
        go(i, j) ==
            IF i < j
            THEN LET h == (i + j) \div 2
                 IN IF ~(a[h + 1] >= x) THEN go(h + 1, j) ELSE go(i, h)
            ELSE i
    IN go(0, Len(a))

\* acceptOrigin
acceptOrigin(o, origins) ==
    IF Len(origins) = 0 THEN FALSE
    ELSE LET ix == SearchInts(origins, o)
         IN  ix < Len(origins) /\ origins[ix + 1] = o

\* What parseFilename returns: a record and no error, neither (the name is
\* rejected), or an error; or it panics.
NoRecord(kind) == [kind |-> kind, f |-> <<>>]

\* A bug-seeded variant: the name is not looked at by Keep.
parseFilenameNoKeep(p, upi, i) ==
    LET n == Len(p)
        source == TrimLeft0(p[1])
        s == ParseInt16(source)
        seq == ParseUint10(p[n - 3])
        t == ParseTime(p[n - 2] \o p[n - 1])
    IN  IF ~s.ok THEN NoRecord("error")
        ELSE IF n < 5 THEN NoRecord("panic")
        ELSE IF ~acceptOrigin(s.n,
                    IF p[n - 4] \in {<<"1">>, <<"2">>} THEN OriImages
                    ELSE IF p[n - 4] = <<"3">> THEN OriSciences ELSE <<>>)
        THEN NoRecord("rejected")
        ELSE IF upi = <<>> /\ n - 5 < 1 THEN NoRecord("panic")
        ELSE IF ~seq.ok THEN NoRecord("error")
        ELSE IF ~t.ok THEN NoRecord("error")
        ELSE [kind |-> "record",
              f |-> [Path |-> p, Source |-> source, Size |-> i,
                     Info |-> IF upi = <<>> THEN SubSeq(p, 2, n - 5) ELSE upi,
                     Sequence |-> seq.n, AcqTime |-> t.t]]

\* parseFilename(p, upi, i) on the base name p: ps[k] of the code is p[k + 1].
\* Indexing ps below 0, or slicing ps[1:0], panics.
parseFilename(p, upi, i) ==
    LET n == Len(p)
        source == TrimLeft0(p[1])
        s == ParseInt16(source)
        seq == ParseUint10(p[n - 3])
        t == ParseTime(p[n - 2] \o p[n - 1])
    IN  IF ~Keep(p) THEN NoRecord("rejected")
        ELSE IF ~s.ok THEN NoRecord("error")
        ELSE IF n < 5 THEN NoRecord("panic")
        ELSE IF ~acceptOrigin(s.n,
                    IF p[n - 4] \in {<<"1">>, <<"2">>} THEN OriImages
                    ELSE IF p[n - 4] = <<"3">> THEN OriSciences ELSE <<>>)
        THEN NoRecord("rejected")
        ELSE IF upi = <<>> /\ n - 5 < 1 THEN NoRecord("panic")
        ELSE IF ~seq.ok THEN NoRecord("error")
        ELSE IF ~t.ok THEN NoRecord("error")
        ELSE [kind |-> "record",
              f |-> [Path |-> p, Source |-> source, Size |-> i,
                     Info |-> IF upi = <<>> THEN SubSeq(p, 2, n - 5) ELSE upi,
                     Sequence |-> seq.n, AcqTime |-> t.t]]

\* Bound: the largest number of fields of a name.
MaxFields == 6

\* The fields of the names: a source with a leading zero, a one, letters, a
\* date, a time of day, a number that fits neither an int8 in base 16 nor the
\* sequence counter, and a field with a byte Keep refuses.
Tokens ==
    {<<"0", "3", "8">>, <<"1">>, <<"z", "z">>,
     <<"2", "0", "2", "0", "0", "2", "2", "9">>,
     <<"1", "2", "0", "0", "0", "0">>, <<"9", "9">>, <<"a", "!">>}

Names == UNION {[1..n -> Tokens] : n \in 1..MaxFields}

\* A caller is about to call parseFilename on a base name, without filter.
InitParse ==
    /\ InitCoze
    /\ InitCheckFiles(0, FALSE, "upi")
    /\ InitCountFiles
    /\ InitWalkFiles(0, 1, [w \in Roots |-> 0])
    /\ call \in [name : Names, upi : {<<>>}]
    /\ res = NoCall
    /\ lpc = "init"

\* f, err := parseFilename(p, upi, i.Size())
CallParseFilename ==
    /\ lpc = "init"
    /\ \E i \in Sizes : res' = parseFilename(call.name, call.upi, i)
    /\ lpc' = "called"
    /\ UNCHANGED <<call, rangeVars, checkVars, countVars, scanVars,
                   boxVars>>

NextParse == CallParseFilename

SpecParse == InitParse /\ [][NextParse]_vars

--------------------------------------------------------------------------
\* findFiles and scanTar on one entry, with the filter given with -u

\* The characters of a name: its fields joined by "_".
RECURSIVE Flat(_)
Flat(n) ==
    IF n = <<>> THEN <<>>
    ELSE IF Len(n) = 1 THEN n[1]
    ELSE n[1] \o <<"_">> \o Flat(Tail(n))

\* strings.Index(s, sub): the first place of sub in s, from 0, or -1.
Index(s, sub) ==
    LET at == {i \in 0..(Len(s) - Len(sub)) :
                  SubSeq(s, i + 1, i + Len(sub)) = sub}
    IN  IF at = {} THEN -1 ELSE CHOOSE i \in at : \A j \in at : i <= j

\* filepath.Ext(s): the part of s from its last '.', or nothing.
Ext(s) ==
    LET dots == {i \in 1..Len(s) : s[i] = "."}
    IN  IF dots = {} THEN <<>>
        ELSE SubSeq(s, CHOOSE i \in dots : \A j \in dots : i >= j, Len(s))

DotXml == <<".", "x", "m", "l">>

\* What the visit of an entry gives: a record sent on the queue, nothing, an
\* error (on a plain file the walk of the root ends with it), or a panic.
Visited(r) ==
    IF r.kind = "record" THEN [kind |-> "sent", f |-> r.f]
    ELSE IF r.kind = "rejected" THEN NoRecord("nothing")
    ELSE r

\* A bug-seeded variant: a plain file is decoded whatever its name.
visitFileNoFilter(n, upi, i) == Visited(parseFilename(n, upi, i))

\* findFiles, lines 110-120: a plain file of base name n and size i.
visitFile(n, upi, i) ==
    IF upi # <<>> /\ Index(Flat(n), Flat(upi)) < 0
    THEN NoRecord("nothing")
    ELSE Visited(parseFilename(n, upi, i))

\* scanTar, lines 173-182, and findFiles, lines 84-86: a member of a tar, of
\* base name n and size i; after an error the rest of the tar is not read.
visitMember(n, upi, i) ==
    IF Ext(Flat(n)) = DotXml THEN NoRecord("nothing")
    ELSE LET r == parseFilename(n, upi, i)
         IN  IF r.kind = "error" THEN NoRecord("nothing") ELSE Visited(r)

\* findFiles, lines 97-107: a line of a list file, of base name n.
visitLine(n, upi) ==
    IF Len(Flat(n)) = 0 \/ Ext(Flat(n)) = DotXml THEN NoRecord("nothing")
    ELSE LET r == parseFilename(n, upi, 0)
         IN  IF r.kind = "error" THEN NoRecord("nothing") ELSE Visited(r)

\* The names of the entries: a source, the fields of the information if any,
\* the type, the sequence, the date, the time and a last field.
EntryNames ==
    {<<s>> \o u \o <<<<"1">>, q, <<"2", "0", "2", "0", "0", "2", "2", "9">>,
                      <<"1", "2", "0", "0", "0", "0">>, e>> :
        s \in {<<"0", "3", "8">>, <<"9", "9">>},
        u \in {<<>>, <<<<"z", "z">>>>, <<<<"x", "y">>>>},
        q \in {<<"1">>, <<"z", "z">>},
        e \in {<<"1", ".", "d", "a", "t">>, <<"1", ".", "x", "m", "l">>}}

\* The filters given with -u: none, and one field of letters.
Filters == {<<>>, <<<<"z", "z">>>>}

\* A worker is about to visit an entry: a plain file, a member of a tar or a
\* line of a list file.
InitEntry ==
    /\ InitCoze
    /\ InitCheckFiles(0, FALSE, "upi")
    /\ InitCountFiles
    /\ InitWalkFiles(0, 1, [w \in Roots |-> 0])
    /\ call \in [entry : {"file", "member", "line"}, name : EntryNames,
                  upi : Filters]
    /\ res = NoCall
    /\ lpc = "init"

VisitFile ==
    /\ lpc = "init"
    /\ call.entry = "file"
    /\ \E i \in Sizes :
          res' = IF Ext(Flat(call.name)) = DotXml
                 THEN NoRecord("nothing")
                 ELSE visitFile(call.name, call.upi, i)
    /\ lpc' = "called"
    /\ UNCHANGED <<call, rangeVars, checkVars, countVars, scanVars,
                   boxVars>>

VisitMember ==
    /\ lpc = "init"
    /\ call.entry = "member"
    /\ \E i \in Sizes : res' = visitMember(call.name, call.upi, i)
    /\ lpc' = "called"
    /\ UNCHANGED <<call, rangeVars, checkVars, countVars, scanVars,
                   boxVars>>

VisitLine ==
    /\ lpc = "init"
    /\ call.entry = "line"
    /\ res' = visitLine(call.name, call.upi)
    /\ lpc' = "called"
    /\ UNCHANGED <<call, rangeVars, checkVars, countVars, scanVars,
                   boxVars>>

NextEntry == VisitFile \/ VisitMember \/ VisitLine

SpecEntry == InitEntry /\ [][NextEntry]_vars

--------------------------------------------------------------------------
\* Coze.Seen on one Range Set

\* The values a caller passes: the small ones and the largest counter value.
Values == (0..MaxSeq) \cup {UintMod - 1}

InitRange ==
    InitCoze /\ InitCheckFiles(0, FALSE, "upi") /\ InitCountFiles /\ InitIdle

\* c.Seen(v): s, ok := inRanges(c.seen, v); if !ok { c.seen = s }; return ok
Seen(v) ==
    LET r == inRanges(seen, v)
    IN  /\ seen' = IF ~r.ok THEN r.seen ELSE seen
        /\ ret' = r.ok
        /\ arg' = v
        /\ inserted' = inserted \cup {v}
        /\ UNCHANGED <<seen2, inserted2, arg2>>
        /\ UNCHANGED checkVars
        /\ UNCHANGED countVars
        /\ UNCHANGED scanVars
        /\ UNCHANGED callVars
    /\ UNCHANGED boxVars

NextRange == \E v \in Values : Seen(v)

SpecRange == InitRange /\ [][NextRange]_vars

--------------------------------------------------------------------------
\* Two Range Sets fed distinct values, each in an order of its own

OrdValues == 0..MaxOrd

\* The first Coze sees a value it has not seen yet.
SeenFirst(v) ==
    /\ v \notin inserted
    /\ Seen(v)

\* The second Coze sees a value it has not seen yet.
SeenSecond(v) ==
    /\ v \notin inserted2
    /\ LET r == inRanges(seen2, v)
       IN  /\ seen2' = IF ~r.ok THEN r.seen ELSE seen2
           /\ inserted2' = inserted2 \cup {v}
           /\ arg2' = v
    /\ UNCHANGED <<seen, inserted, ret, arg>>
    /\ UNCHANGED checkVars
    /\ UNCHANGED countVars
    /\ UNCHANGED scanVars
    /\ UNCHANGED callVars
    /\ UNCHANGED boxVars

NextOrder ==
    \/ \E v \in OrdValues : SeenFirst(v)
    \/ \E v \in OrdValues : SeenSecond(v)

SpecOrder == InitRange /\ [][NextOrder]_vars

--------------------------------------------------------------------------
\* Properties of the Range Set

\* The integers the closed intervals of a Range list cover.
Covered(seen_) == UNION {seen_[i].First .. seen_[i].Last : i \in 1..Len(seen_)}

SetMin(S) == CHOOSE x \in S : \A y \in S : x <= y

SetMax(S) == CHOOSE x \in S : \A y \in S : x >= y

\* The integers strictly between the smallest and the largest inserted value
\* that were never inserted.
Holes(S) == IF S = {} THEN {} ELSE {x \in SetMin(S)..SetMax(S) : x \notin S}

RECURSIVE SumGaps(_, _)
SumGaps(seen_, i) ==
    IF i >= Len(seen_) THEN 0
    ELSE (seen_[i + 1].First - seen_[i].Last - 1) + SumGaps(seen_, i + 1)

Example == {1, 2, 3, 7, 8, 10}

\* C1 - Range Set invariant: after any sequence of insertions into an empty
\* list, every range has First <= Last, the list is strictly ascending, and
\* consecutive ranges are neither overlapping nor adjacent
\* (next.First - prev.Last >= 2).
C1_RangeSetInvariant ==
    /\ \A i \in 1..Len(seen) : seen[i].First <= seen[i].Last
    /\ \A i \in 1..(Len(seen) - 1) :
          /\ seen[i].First < seen[i + 1].First
          /\ seen[i].Last < seen[i + 1].Last
          /\ seen[i + 1].First - seen[i].Last >= 2

\* A list of three ranges or more, one of them holding several values, the last
\* insertion having changed the list.
C1_Witness ==
    /\ Len(seen) >= 3
    /\ \E i \in 1..Len(seen) : seen[i].First < seen[i].Last
    /\ ret = FALSE
    /\ inserted # {}

\* C2 - Range Set membership: the union of the intervals of the list is exactly
\* the set of values inserted so far; an insertion reports "already present"
\* exactly when its value was inserted before, and after an insertion that
\* reports "absent" the value is in the list.
C2_Membership ==
    /\ [](Covered(seen) = inserted)
    /\ [][/\ ret' = (arg' \in inserted)
          /\ (~ret' => arg' \in Covered(seen'))]_vars

\* Both outcomes have been seen on a list with a hole: a value filling nothing
\* reported present.
C2_Witness ==
    /\ ret = TRUE
    /\ arg \in inserted
    /\ Len(seen) >= 2
    /\ Cardinality(inserted) >= 4

\* C3 - Idempotence: inserting a value that is already present reports
\* "already present" and leaves the range list, Total() and Missing() as they
\* were.
C3_Idempotence ==
    [][(arg' \in inserted) =>
          /\ ret' = TRUE
          /\ seen' = seen
          /\ Total(seen') = Total(seen)
          /\ Missing(seen') = Missing(seen)]_vars

\* A second insertion of the lower bound of a range of a list with missing
\* values.
C3_Witness ==
    /\ ret = TRUE
    /\ \E i \in 1..Len(seen) : seen[i].First = arg /\ seen[i].Last > arg
    /\ Missing(seen) > 0

\* C4 - Order independence: two Range Sets that were fed the same set of
\* distinct values, each in an order of its own, hold the same range list and
\* the same Missing().
C4_OrderIndependence ==
    (inserted = inserted2) =>
        /\ seen = seen2
        /\ Missing(seen) = Missing(seen2)

\* The same four values or more went into both sets, the last one inserted
\* differing, and they left a hole and a range of several values.
C4_Witness ==
    /\ inserted = inserted2
    /\ Cardinality(inserted) >= 4
    /\ arg # arg2
    /\ Len(seen2) >= 2
    /\ \E i \in 1..Len(seen2) : seen2[i].First < seen2[i].Last

\* C5 (as amended) - Missing() is the sum over consecutive range pairs of
\* (next.First - prev.Last - 1), which is the number of integers strictly
\* between the smallest and the largest inserted value that were never
\* inserted; it is 0 for an empty or single-range set, and 4 after inserting
\* 1,2,3,7,8,10.
C5_MissingCount ==
    /\ Missing(seen) = SumGaps(seen, 1)
    /\ Missing(seen) = Cardinality(Holes(inserted))
    /\ (Len(seen) <= 1 => Missing(seen) = 0)
    /\ (inserted = Example => Missing(seen) = 4)

\* The values 1,2,3,7,8,10 have been inserted.
C5_Witness ==
    /\ inserted = Example
    /\ Len(seen) = 3

\* C5 (as stated) - the same, with Missing() = 5 after inserting 1,2,3,7,8,10.
C5_AsStated ==
    /\ Missing(seen) = SumGaps(seen, 1)
    /\ Missing(seen) = Cardinality(Holes(inserted))
    /\ (Len(seen) <= 1 => Missing(seen) = 0)
    /\ (inserted = Example => Missing(seen) = 5)

\* C6 - MissingRanges() has one entry [prev.Last, next.First] for every pair of
\* consecutive ranges, in ascending order (none for an empty list); both bounds
\* of an entry were inserted and no integer strictly between them was; for
\* 1,2,3,7,8,10 it is [[3,7],[8,10]].
C6_MissingRanges ==
    LET mr == MissingRanges(seen)
    IN  /\ Len(mr) = (IF Len(seen) = 0 THEN 0 ELSE Len(seen) - 1)
        /\ \A i \in 1..Len(mr) :
              /\ mr[i].First \in inserted
              /\ mr[i].Last \in inserted
              /\ mr[i].First < mr[i].Last
              /\ \A x \in (mr[i].First + 1)..(mr[i].Last - 1) : x \notin inserted
        /\ \A i \in 1..(Len(mr) - 1) : mr[i].Last <= mr[i + 1].First
        /\ \A x \in Holes(inserted) :
              \E i \in 1..Len(mr) : mr[i].First < x /\ x < mr[i].Last
        /\ (inserted = Example =>
               mr = <<[First |-> 3, Last |-> 7], [First |-> 8, Last |-> 10]>>)

\* The example's values are in, and its two gaps are listed.
C6_Witness ==
    /\ inserted = Example
    /\ Len(MissingRanges(seen)) = 2

\* C7 (as stated) - Total() is last_range.Last - first_range.First + 1, the
\* span from the smallest to the largest value seen, and 0 for an empty set.
C7_TotalIsSpan ==
    Total(seen) =
        IF Len(seen) = 0 THEN 0
        ELSE Add32(Sub32(seen[Len(seen)].Last, seen[1].First), 1)

--------------------------------------------------------------------------
\* Properties of the gap detector

GapsOf(gs) == {gs[i] : i \in 1..Len(gs)}

\* Every gap held for a partition, and every gap returned.
KnownGaps == UNION {GapsOf(rs[n]) : n \in Keys} \cup GapsOf(out)

\* The sequence counters received so far, in arrival order.
Arrived == [i \in 1..Len(stream) |-> stream[i].Sequence]

\* The partition of the records of the examples.
TheKey == <<"38", "XYZ">>

\* C8 (as stated) - every gap held in a partition's list at any time, and every
\* gap returned by checkFiles, has After - Before > 1, that is Count() >= 1: no
\* zero-count gap is reported, also after a refill split or shrank a gap.
C8_NoZeroCountGap ==
    \A g \in KnownGaps :
        /\ Sub32(g.After, g.Before) > 1
        /\ GapCount(g) >= 1

\* C9 (as stated) - every gap the detector creates has Before < After by
\* sequence number, whatever the order of the two records' acquisition times.
C9_BeforeBelowAfter ==
    \A g \in KnownGaps : g.Before < g.After

\* Sequences 1, 5, 3 were received for one partition, the record 5 not being
\* acquired before the record 1, so that the second record created the gap
\* [1,5].
RefillCase ==
    /\ Arrived = <<1, 5, 3>>
    /\ \A i \in 1..3 : By(stream[i]) = TheKey /\ stream[i].Valid
    /\ stream[1].AcqTime <= stream[2].AcqTime
    /\ interval = 0

\* C10 (as amended) - refill split: after sequences 1, 5, 3 the gap [1,5] made by
\* the second record has been split by the third: the partition's open gaps are
\* [1,3] (count 1, from the first record's time to the third's) and [3,5]
\* (count 1, from the third record's time to the second's), and the comparison
\* with the previous record appended no gap.
C10_RefillSplits ==
    RefillCase =>
        rs[TheKey] =
            <<[UPI |-> TheKey, Before |-> 1, After |-> 3,
               Starts |-> stream[1].AcqTime, Ends |-> stream[3].AcqTime],
              [UPI |-> TheKey, Before |-> 3, After |-> 5,
               Starts |-> stream[3].AcqTime, Ends |-> stream[2].AcqTime]>>

\* The three records have been received, and the two gaps count one value each.
C10_Witness ==
    /\ RefillCase
    /\ Len(rs[TheKey]) = 2
    /\ \A i \in 1..2 : GapCount(rs[TheKey][i]) = 1
    /\ qs[TheKey] = <<single(1), single(3), single(5)>>

\* C10 (as stated) - refill shrink: after sequences 1, 5, 3 the partition's open
\* gap list is the single gap before=3, after=5, count=1.
C10_AsStated ==
    RefillCase =>
        /\ Len(rs[TheKey]) = 1
        /\ rs[TheKey][1].Before = 3
        /\ rs[TheKey][1].After = 5
        /\ GapCount(rs[TheKey][1]) = 1

\* C11 (as stated) - keep all gaps: a gap once appended to a partition's list is
\* never shrunk, split or removed by a later record, and after sequences 1, 5, 3
\* the gap before=1, after=5 is in the list returned. (The option -a of the
\* documentation is declared by no flag of runCheck and is no parameter of
\* checkFiles: the detector has the one mode checked here.)
C11_GapsAreKept ==
    /\ [][\A n \in Keys : \A g \in GapsOf(rs[n]) : g \in GapsOf(rs'[n])]_vars
    /\ []((RefillCase /\ pc = "done") =>
            \E g \in GapsOf(out) : g.Before = 1 /\ g.After = 5)

\* The maps of checkFiles after the records s[i], s[i+1], ... have gone through
\* the body of its loop, from the maps st.
RECURSIVE Run(_, _, _)
Run(st, s, i) ==
    IF i > Len(s) THEN st ELSE Run(Integrate(st, s[i]), s, i + 1)

\* The maps of checkFiles before the first record.
NoMaps ==
    [rs |-> [n \in Keys |-> <<>>], cs |-> [n \in Keys |-> NoFile],
     qs |-> [n \in Keys |-> <<>>]]

\* The record f with a name that is not ".bad".
Twin(f) == [f EXCEPT !.Valid = TRUE]

\* A record has just been received.
Received == stream' # stream

\* C12 - duplicates: a record whose sequence counter is already in the Range
\* Set of its partition leaves the gap list and the Range Set of the partition
\* as they were, and a valid record whose sequence counter is already in the
\* Range Set of its Coze does not increment Uniq.
C12_Duplicates ==
    [][Received =>
        LET f == cur'
            n == By(f)
            k == FileString(f)
        IN  /\ f.Sequence \in Covered(qs[n]) =>
                   (rs'[n] = rs[n] /\ qs'[n] = qs[n])
            /\ f.Sequence \in Covered(cz[k].seen) =>
                   (cz'[k].Uniq = cz[k].Uniq /\ cz'[k].seen = cz[k].seen)]_vars

\* A valid record has come twice, after a gap was recorded.
C12_Witness ==
    /\ Len(stream) = 3
    /\ stream[3].Valid
    /\ stream[3].Sequence = stream[2].Sequence
    /\ rs[TheKey] # <<>>
    /\ cz[TheKey].Count = 3
    /\ cz[TheKey].Uniq = 2

\* C13 - invalid records: when keep is off a record named ".bad" changes none
\* of the maps of checkFiles, so that the maps are those of the stream without
\* its invalid records; when keep is on it goes through the loop as the record
\* of the same fields with a valid name does.
C13_InvalidRecords ==
    /\ [][(Received /\ ~cur'.Valid) =>
            IF keep
            THEN LET st == Integrate(Maps, Twin(cur'))
                 IN  /\ rs' = st.rs
                     /\ qs' = st.qs
                     /\ cs' = [st.cs EXCEPT ![By(cur')] = cur']
            ELSE UNCHANGED <<rs, cs, qs>>]_vars
    /\ [](~keep =>
            Maps = Run(NoMaps, SelectSeq(stream, LAMBDA f : f.Valid), 1))

\* With keep off, an invalid record has come between the two records of a gap.
C13_Witness ==
    /\ ~keep
    /\ Len(stream) = 3
    /\ ~stream[2].Valid
    /\ stream[2].Sequence = 1
    /\ rs[TheKey] # <<>>
    /\ Len(qs[TheKey]) = 2
    /\ 1 \notin Covered(qs[TheKey])

\* C14 (as stated) - minimum duration: when the interval is above 0, every gap
\* returned by checkFiles has Ends - Starts >= interval, also a gap a refill
\* has rewritten.
C14_MinDuration ==
    (interval > 0 /\ pc = "done") =>
        \A g \in GapsOf(out) : GapDuration(g) >= interval

\* The key of the partition of f in checkFiles, as -b selects it.
PartitionOf(f) ==
    IF by = "source" THEN <<f.Source>> ELSE <<f.Source, f.Info>>

\* The records of the stream received so far that belong to partition n.
SubStream(n) == SelectSeq(stream, LAMBDA f : PartitionOf(f) = n)

\* C15 - partition isolation: a record changes the gap list, the Range Set and
\* the last-seen record of its own partition only, and the Coze of its own
\* source and information only; the state of a partition is the one its own
\* records alone give. By source, the records of one source share one
\* partition whatever their information, and no other key holds any state.
C15_PartitionIsolation ==
    /\ [][Received =>
            /\ \A n \in Keys \ {PartitionOf(cur')} :
                   rs'[n] = rs[n] /\ cs'[n] = cs[n] /\ qs'[n] = qs[n]
            /\ \A k \in Keys \ {<<cur'.Source, cur'.Info>>} :
                   cz'[k] = cz[k]]_vars
    /\ [](\A n \in Keys :
            LET st == Run(NoMaps, SubStream(n), 1)
            IN  rs[n] = st.rs[n] /\ cs[n] = st.cs[n] /\ qs[n] = st.qs[n])
    /\ [](by = "source" =>
            \A s \in AllSources :
              /\ Covered(qs[<<s>>]) =
                    {stream[i].Sequence :
                        i \in {j \in 1..Len(stream) : stream[j].Source = s}}
              /\ \A u \in AllInfos :
                    rs[<<s, u>>] = <<>> /\ qs[<<s, u>>] = <<>>
                        /\ cs[<<s, u>>] = NoFile)

\* By UPI, a record of another partition has come between the two records of
\* a gap.
C15_Witness ==
    /\ by = "upi"
    /\ Len(stream) = 3
    /\ FileString(stream[2]) = <<"39", "XYZ">>
    /\ stream[2].Sequence = 1
    /\ Len(rs[TheKey]) = 1
    /\ rs[<<"39", "XYZ">>] = <<>>
    /\ Covered(qs[<<"39", "XYZ">>]) = {1}
    /\ cz[<<"39", "XYZ">>].Count = 1
    /\ cz[TheKey].Count = 2

\* The gaps between the consecutive records s[i], s[i+1], ... whose sequence
\* counters differ by more than 1, in the order of the records.
RECURSIVE PairGaps(_, _)
PairGaps(s, i) ==
    IF i >= Len(s) THEN <<>>
    ELSE (IF s[i + 1].Sequence - s[i].Sequence > 1
          THEN <<[UPI |-> <<s[i].Source, s[i].Info>>,
                  Before |-> s[i].Sequence, After |-> s[i + 1].Sequence,
                  Starts |-> s[i].AcqTime, Ends |-> s[i + 1].AcqTime]>>
          ELSE <<>>) \o PairGaps(s, i + 1)

\* C16 - in-order streams: when the records of a partition come with strictly
\* increasing sequence counters and acquisition times and the interval is 0,
\* the gaps held and returned are exactly one gap per consecutive pair of
\* records whose counters differ by more than 1, with Before, After, Starts and
\* Ends taken from the pair, and count After - Before - 1.
C16_InOrderStreams ==
    /\ rs[TheKey] = PairGaps(stream, 1)
    /\ \A n \in Keys \ {TheKey} : rs[n] = <<>>
    /\ \A g \in GapsOf(rs[TheKey]) : GapCount(g) = g.After - g.Before - 1
    /\ pc = "done" => out = PairGaps(stream, 1)

\* 10, 11, 13 at T0 < T1 < T2: the single gap before 11, after 13, count 1.
C16_Witness ==
    /\ pc = "done"
    /\ Arrived = <<10, 11, 13>>
    /\ Len(out) = 1
    /\ out[1] = [UPI |-> TheKey, Before |-> 11, After |-> 13,
                  Starts |-> stream[2].AcqTime, Ends |-> stream[3].AcqTime]
    /\ GapCount(out[1]) = 1

\* The roots whose worker has started findFiles and not yet received from sema.
Active == {w \in Roots : fpc[w] \in {"walk", "send", "sema"}}

\* C17 - bounded concurrency: the workers that have started findFiles and not
\* yet released their slot are at most max; each of them holds a slot of sema,
\* taken before it was started, and a worker that has returned, with an error
\* or not, holds none.
C17_BoundedConcurrency ==
    /\ Cardinality(Active) <= max
    /\ sema <= max
    /\ sema = Cardinality(Active) + (IF wpc = "go" THEN 1 ELSE 0)

\* With one slot and two roots, the first worker has ended with an error and
\* the second is running.
C17_Witness ==
    /\ max = 1
    /\ paths = 2
    /\ fpc[1] = "done"
    /\ err[1]
    /\ fpc[2] = "walk"
    /\ sema = 1

\* C18 - closure ordering: q is closed at most once, only when the worker of
\* every root has returned, and no send on q happens once it is closed.
C18_ClosureOrdering ==
    /\ closes <= 1
    /\ closes > 0 => \A w \in 1..paths : fpc[w] = "done"
    /\ ~panics

\* q is closed after two workers sent records on it.
C18_Witness ==
    /\ closes = 1
    /\ paths = 2
    /\ recv >= 2
    /\ \A w \in 1..paths : fpc[w] = "done" /\ ~err[w]

C20_ErrorSurfaced ==
    (result # "none" /\ \E w \in Roots : err[w]) => result = "error"

PeriodWithBothDates ==
    call.period > 0 /\ call.dtstart # ZeroTime /\ call.dtend # ZeroTime

\* C22 - listPaths with a period above 0, a start and an end: it returns an
\* error and no path, and runCheck returns the error without calling walkFiles.
C22_PeriodWithBothDates ==
    (lpc # "init" /\ PeriodWithBothDates) =>
        /\ res.err
        /\ res.ps = <<>>
        /\ wpc = "none"
        /\ lpc = "done" => result = "error"

\* runCheck has returned the error of listPaths called on roots with a period
\* and both dates.
C22_Witness ==
    /\ lpc = "done"
    /\ PeriodWithBothDates
    /\ Len(call.paths) = 2
    /\ result = "error"
    /\ wpc = "none"

\* The window of a call that gives one: its first instant and its end.
Window ==
    IF call.dtstart # ZeroTime /\ call.dtend # ZeroTime
    THEN <<call.dtstart, call.dtend>>
    ELSE IF call.dtstart # ZeroTime
    THEN <<call.dtstart, call.dtstart + call.period * Day>>
    ELSE IF call.dtend # ZeroTime
    THEN <<call.dtend - call.period * Day, call.dtend>>
    ELSE <<call.now - call.period * Day, call.now>>

\* The number a sequence of decimal digits reads as.
RECURSIVE Value(_)
Value(d) ==
    IF d = <<>> THEN 0
    ELSE 10 * Value(SubSeq(d, 1, Len(d) - 1)) + d[Len(d)]

\* C23 - listPaths, window expansion: without a period above 0 and with at
\* most one date the roots are returned as given; otherwise, the window being
\* [start, end), [start, start + period days), [end - period days, end) or
\* [now - period days, now), the result holds for every instant
\* start + k * 24h before the end, k ascending, one path per root in the order
\* of the roots, made of the root, the year in four digits and the day of the
\* year in three digits; it is empty when the start is not before the end.
C23_WindowExpansion ==
    (lpc # "init" /\ ~PeriodWithBothDates) =>
        /\ ~res.err
        /\ IF call.period <= 0
              /\ (call.dtstart = ZeroTime \/ call.dtend = ZeroTime)
           THEN res.ps = call.paths
           ELSE LET start == Window[1]
                    end == Window[2]
                    n == Len(call.paths)
                    days == Cardinality({k \in 0..(MaxWhen + MaxPeriod * Day) :
                                            start + k * Day < end})
                IN  /\ Len(res.ps) = days * n
                    /\ \A k \in 0..(days - 1) : \A i \in 1..n :
                          LET p == res.ps[k * n + i]
                              t == start + k * Day
                          IN  /\ p[1] = call.paths[i]
                              /\ Len(p[2]) = 4
                              /\ Value(p[2]) = Year(t)
                              /\ Len(p[3]) = 3
                              /\ Value(p[3]) = YearDay(t)
                              /\ t >= start
                              /\ t < end

\* Two roots and a window of both dates that starts in one year and ends in
\* the next: the paths of its days, root by root.
C23_Witness ==
    /\ lpc = "called"
    /\ call.period = 0
    /\ call.dtstart # ZeroTime
    /\ call.dtstart < call.dtend
    /\ Len(call.paths) = 2
    /\ Len(res.ps) >= 4
    /\ res.ps[1][1] = call.paths[1]
    /\ res.ps[2][1] = call.paths[2]
    /\ res.ps[1][2] # res.ps[Len(res.ps)][2]

\* The places in the stream of the records of source and information k.
RecordsOf(k) == {i \in 1..Len(stream) : <<stream[i].Source, stream[i].Info>> = k}

\* C24 - aggregator counters: for every partition Count is the number of its
\* records, Invalid the number of its invalid records, Uniq the number of
\* distinct sequence counters among its valid records, which is the number of
\* integers its Range Set covers; Uniq + Invalid <= Count; and an invalid
\* record changes neither the Range Set nor Uniq.
C24_AggregatorCounters ==
    /\ [](\A k \in AllSources \X AllInfos :
            LET c == cz[k]
                valid == {i \in RecordsOf(k) : stream[i].Valid}
            IN  /\ c.Count = Cardinality(RecordsOf(k))
                /\ c.Invalid = Cardinality(RecordsOf(k) \ valid)
                /\ c.Uniq = Cardinality({stream[i].Sequence : i \in valid})
                /\ c.Uniq = Cardinality(Covered(c.seen))
                /\ Covered(c.seen) = {stream[i].Sequence : i \in valid}
                /\ c.Uniq + c.Invalid <= c.Count)
    /\ [][(Received /\ ~cur'.Valid) =>
            LET k == <<cur'.Source, cur'.Info>>
            IN  /\ cz'[k].seen = cz[k].seen
                /\ cz'[k].Uniq = cz[k].Uniq
                /\ cz'[k].Invalid = cz[k].Invalid + 1]_vars

\* A valid record, an invalid one and the valid one again: three records, one
\* invalid, one distinct sequence counter.
C24_Witness ==
    /\ Len(stream) = 3
    /\ stream[1].Valid
    /\ ~stream[2].Valid
    /\ stream[2].Sequence # stream[1].Sequence
    /\ stream[3] = stream[1]
    /\ cz[TheKey].Count = 3
    /\ cz[TheKey].Invalid = 1
    /\ cz[TheKey].Uniq = 1

\* C25 (as stated) - aggregate sequence bounds: First is the least and Last
\* the greatest sequence counter among the records received for the
\* partition, whatever the order of their acquisition times.
C25_SequenceBounds ==
    \A k \in AllSources \X AllInfos :
        RecordsOf(k) # {} =>
            LET seqs == {stream[i].Sequence : i \in RecordsOf(k)}
            IN  /\ cz[k].First = SetMin(seqs)
                /\ cz[k].Last = SetMax(seqs)

\* The source code of a name: the number its first field reads as in base 16
\* once its leading zeros are stripped, -1 when it reads as none.
SourceCode(p) ==
    LET s == ParseInt16(TrimLeft0(p[1]))
    IN  IF s.ok THEN s.n ELSE -1

\* The origin set selected for a name by its field before the sequence.
Selected(p) ==
    IF Len(p) < 5 THEN {}
    ELSE IF p[Len(p) - 4] \in {<<"1">>, <<"2">>}
    THEN {OriImages[i] : i \in 1..Len(OriImages)}
    ELSE IF p[Len(p) - 4] = <<"3">>
    THEN {OriSciences[i] : i \in 1..Len(OriSciences)}
    ELSE {}

\* C27 (as stated) - decoder outcomes: parseFilename gives neither a record
\* nor an error when the name has a byte outside [A-Za-z0-9._-] or when its
\* source code is not in the origin set selected for it; it gives an error when
\* the sequence field is not a decimal uint32 or the date and time fields do
\* not parse; otherwise it gives the record of the decoded fields.
C27_DecoderOutcomes ==
    lpc = "called" =>
        LET p == call.name
            n == Len(p)
        IN  IF ~Keep(p) \/ SourceCode(p) \notin Selected(p)
            THEN res.kind = "rejected"
            ELSE IF ~ParseUint10(p[n - 3]).ok \/ ~ParseTime(p[n - 2] \o p[n - 1]).ok
            THEN res.kind = "error"
            ELSE /\ res.kind = "record"
                 /\ res.f.Sequence = ParseUint10(p[n - 3]).n
                 /\ res.f.AcqTime = ParseTime(p[n - 2] \o p[n - 1]).t
                 /\ res.f.Source = TrimLeft0(p[1])
                 /\ res.f.Info = SubSeq(p, 2, n - 5)

\* C26 (as stated) - UPI pre-filter: with a filter, every record sent on the
\* queue, from a plain file, a member of a tar or a line of a list file, has a
\* base name that contains the filter, and its information is the filter.
C26_FilterOnEveryRecord ==
    (lpc = "called" /\ call.upi # <<>> /\ res.kind = "sent") =>
        /\ Index(Flat(call.name), Flat(call.upi)) >= 0
        /\ res.f.Info = call.upi

\* C28: after any sequence of records, the record stored as a partition's
\* last seen has the greatest acquisition time of the records processed for
\* that partition (it is replaced only by a record that is not older).
C28_LastSeenIsLatest ==
    \A n \in Keys :
        cs[n] # NoFile =>
            cs[n].AcqTime =
                SetMax({stream[i].AcqTime :
                          i \in {j \in 1..Len(stream) : By(stream[j]) = n}})

\* The gaps of the list gs whose After is at or above the value v.
AtOrAbove(gs, v) == {i \in 1..Len(gs) : gs[i].After >= v}

\* The list gs once its i-th gap starts at the record f, the gap being removed
\* when it counts no value any more.
ShrunkAt(gs, i, f) ==
    LET g == [gs[i] EXCEPT !.Before = f.Sequence, !.Starts = f.AcqTime]
    IN  IF GapCount(g) = 0
        THEN SubSeq(gs, 1, i - 1) \o SubSeq(gs, i + 1, Len(gs))
        ELSE [gs EXCEPT ![i] = g]

\* C29: shrink from below: when a new record f arrives whose sequence counter
\* is Before + 1 of the first open gap with After >= f.Sequence, that gap's
\* Before becomes f.Sequence and its Starts f.AcqTime, its After and Ends are
\* unchanged, no gap is appended for f, the gap is removed when its count
\* becomes 0, and all other gaps of the list are unchanged.
C29_ShrinkFromBelow ==
    [][Received =>
        LET f == cur'
            n == By(f)
            gs == rs[n]
            above == AtOrAbove(gs, f.Sequence)
        IN  (/\ f.Sequence \notin Covered(qs[n])
             /\ above # {}
             /\ f.Sequence = gs[SetMin(above)].Before + 1)
            => rs'[n] = ShrunkAt(gs, SetMin(above), f)]_vars

\* The gaps of the list gs the value v lies strictly inside.
Around(gs, v) == {i \in 1..Len(gs) : gs[i].Before + 1 < v /\ v < gs[i].After}

\* The list gs once its i-th gap is replaced by the gap up to the record f and
\* the gap from the record f.
SplitAt(gs, i, f) ==
    SubSeq(gs, 1, i - 1)
    \o <<[gs[i] EXCEPT !.After = f.Sequence, !.Ends = f.AcqTime],
         [gs[i] EXCEPT !.Before = f.Sequence, !.Starts = f.AcqTime]>>
    \o SubSeq(gs, i + 1, Len(gs))

\* The sum of the counts of the gaps gs[i], gs[i+1], ...
RECURSIVE SumCounts(_, _)
SumCounts(gs, i) ==
    IF i > Len(gs) THEN 0 ELSE GapCount(gs[i]) + SumCounts(gs, i + 1)

\* C30: interior split: when a new record f arrives whose sequence counter lies
\* strictly inside an open gap (Before + 1 < f.Sequence < After), that single
\* gap is replaced at the same list position by the gaps [Before, f.Sequence]
\* (ending at f.AcqTime) and [f.Sequence, After] (starting at f.AcqTime), no
\* gap is appended by the comparison with the previous record, and the sum of
\* the partition's gap counts decreases by exactly 1.
C30_InteriorSplit ==
    [][Received =>
        LET f == cur'
            n == By(f)
            gs == rs[n]
            around == Around(gs, f.Sequence)
        IN  (f.Sequence \notin Covered(qs[n]) /\ around # {})
            => /\ \E i \in around : rs'[n] = SplitAt(gs, i, f)
               /\ SumCounts(rs'[n], 1) = SumCounts(gs, 1) - 1]_vars

\* C31: after any sequence of records, each partition's open-gap list is sorted
\* ascending by After and its gaps do not overlap: for consecutive gaps g, h,
\* g.After <= h.Before (and so g.After <= h.After).
C31_SortedGapList ==
    \A n \in Keys :
        \A i \in 1..(Len(rs[n]) - 1) :
            /\ rs[n][i].After <= rs[n][i + 1].After
            /\ rs[n][i].After <= rs[n][i + 1].Before

--------------------------------------------------------------------------
\* Properties of the scan of archives and lists

\* The records of root w the consumer received, in the order received.
TakenOf(w) == SelectSeq(taken, LAMBDA r : r.root = w)

\* The archive or list of root w has just been read up to a member or a line
\* on which parseFilename returned an error.
DecodeError(w, k) ==
    /\ box[w].kind = k
    /\ box'[w].kind = k
    /\ box'[w].log = Append(box[w].log, "error")

\* C32: a decode error on a member of a tar archive stops the reading of that
\* archive only: the records decoded before it stay on their way and are all
\* received by the time the worker leaves the archive, and the worker goes on
\* with the walk of its root, without an error. A decode error on a line of a
\* list file skips that line only: the lines after it are still to be read,
\* and the worker leaves the list when all its lines are read, its records
\* received.
C32_DecodeErrorScope ==
    [][\A w \in Roots :
        /\ DecodeError(w, "tar") =>
              /\ box'[w].tpc = "closed"
              /\ box'[w].f = box[w].f
              /\ fpc'[w] = fpc[w]
              /\ <<decoded, hold, taken, err, left>>'
                    = <<decoded, hold, taken, err, left>>
        /\ (fpc[w] = "tar" /\ fpc'[w] \notin {"tar", "send", "dead"}) =>
              /\ fpc'[w] = "walk"
              /\ ~err'[w]
              /\ left'[w] = left[w]
              /\ TakenOf(w) = decoded[w]
        /\ DecodeError(w, "lst") =>
              /\ box'[w].left = box[w].left - 1
              /\ fpc'[w] = "lst"
              /\ <<decoded, hold, taken, err, left>>'
                    = <<decoded, hold, taken, err, left>>
        /\ (fpc[w] = "lst" /\ fpc'[w] = "walk") =>
              /\ box[w].left = 0
              /\ ~err'[w]
              /\ TakenOf(w) = decoded[w]]_vars

\* An archive was read up to a decode error after a record, that record is
\* received and its root has an entry left to visit, while in a list a line
\* gave a record after a line that gave an error, and that record is received.
C32_Witness ==
    \E w, v \in Roots :
        /\ box[w].kind = "tar"
        /\ box[w].log = <<"record", "error">>
        /\ TakenOf(w) = decoded[w]
        /\ left[w] > 0
        /\ ~err[w]
        /\ box[v].kind = "lst"
        /\ box[v].log = <<"error", "record">>
        /\ TakenOf(v) = decoded[v]
        /\ Len(decoded[v]) > 0

\* The records of root w decoded and not yet received: held by its worker at
\* queue <- f, then by the goroutine of its archive at q <- f.
OnTheWay(w) ==
    (IF hold[w] # NoRec THEN <<hold[w]>> ELSE <<>>)
    \o (IF box[w].f # NoRec THEN <<box[w].f>> ELSE <<>>)

\* C33: every record decoded under a root is received by the consumer exactly
\* once, and the records of a root (so those of one archive or one list) in
\* the order decoded: the records received from a root, followed by those on
\* their way, are the records decoded under it, and none is on its way once
\* the consumer has returned.
C33_ExactlyOnce ==
    \A w \in Roots :
        /\ decoded[w] = TakenOf(w) \o OnTheWay(w)
        /\ rpc = "returned" => TakenOf(w) = decoded[w]

\* The consumer has returned after it received two records of each of two
\* roots, those of the two roots being interleaved.
C33_Witness ==
    /\ rpc = "returned"
    /\ Len(taken) = 4
    /\ taken[1].root # taken[2].root
    /\ taken[2].root # taken[3].root
    /\ \A w \in Roots : Len(decoded[w]) = 2

--------------------------------------------------------------------------
\* Further properties of the gap detector and of the aggregator

\* Under the grouping by source, two records of one source were received,
\* the second with a sequence counter more than one above the first's.
TwoOfOneSource ==
    /\ by = "source"
    /\ Len(stream) = 2
    /\ stream[1].Source = stream[2].Source
    /\ stream[2].Sequence > stream[1].Sequence + 1

\* The two records of TwoOfOneSource gave a gap.
GapOfTwo ==
    \E g \in GapsOf(rs[bySource(stream[1])]) :
        g.Before = stream[1].Sequence /\ g.After = stream[2].Sequence

\* Every gap held carries the key of its partition in its UPI field.
GapsCarryKey == \A n \in Keys : \A g \in GapsOf(rs[n]) : g.UPI = n

\* C34: grouping by source runs the same algorithm as grouping by UPI: two
\* successive new records of one source with sequence counters p < f,
\* f - p > 1, give a gap also when their upi fields differ, and the UPI field
\* of every gap is the key of its partition (the source alone under bySource).
C34_GroupingBySource == GapsCarryKey /\ (TwoOfOneSource => GapOfTwo)

\* The last place among the places I of the stream.
LastOf(I) == SetMax(I)

\* C35: aggregate time bounds: for every partition Starts is the least and
\* Ends the greatest acquisition time of its records, valid or not, Size is
\* the sum of their sizes (every record of the stream has size 1), and First
\* (Last) is the sequence counter of the record that arrived last among those
\* acquired at Starts (at Ends).
C35_TimeBounds ==
    \A k \in AllSources \X AllInfos :
        RecordsOf(k) # {} =>
            LET times == {stream[i].AcqTime : i \in RecordsOf(k)}
                lo == SetMin(times)
                hi == SetMax(times)
            IN  /\ cz[k].Starts = lo
                /\ cz[k].Ends = hi
                /\ cz[k].Size = Cardinality(RecordsOf(k))
                /\ cz[k].First =
                     stream[LastOf({i \in RecordsOf(k) :
                                      stream[i].AcqTime = lo})].Sequence
                /\ cz[k].Last =
                     stream[LastOf({i \in RecordsOf(k) :
                                      stream[i].AcqTime = hi})].Sequence

\* The pairs Before, After of the gaps of the list gs.
Bounds(gs) == {<<gs[i].Before, gs[i].After>> : i \in 1..Len(gs)}

\* The pairs First, Last of the ranges of the list mr.
Ends(mr) == {<<mr[i].First, mr[i].Last>> : i \in 1..Len(mr)}

\* C36: the gap detector agrees with the Range Set: on valid records and
\* without a minimum duration, after any stream (any arrival order, with
\* duplicates) the counts of a partition's gaps sum to Missing() of its Range
\* Set and its gaps are that Range Set's MissingRanges(), one gap for each;
\* after 5, 1, 3 the gaps are [1,3] and [3,5].
C36_GapsAreMissingRanges ==
    \A n \in Keys :
        /\ SumCounts(rs[n], 1) = Missing(qs[n])
        /\ Bounds(rs[n]) = Ends(MissingRanges(qs[n]))
        /\ Len(rs[n]) = Len(MissingRanges(qs[n]))
        /\ (Arrived = <<5, 1, 3>> /\ n = TheKey =>
                Bounds(rs[n]) = {<<1, 3>>, <<3, 5>>})

\* C37: no integrated value inside an open gap: for every partition and every
\* gap of its list, Before and After are values of the partition's Range Set
\* and no value of the Range Set lies strictly between them.
C37_NoSeenValueInGap ==
    \A n \in Keys :
        \A g \in GapsOf(rs[n]) :
            /\ g.Before \in Covered(qs[n])
            /\ g.After \in Covered(qs[n])
            /\ \A x \in Covered(qs[n]) : ~(g.Before < x /\ x < g.After)

\* C38: the decoder never crashes: on every base name made of bytes Keep
\* accepts, also one of fewer than five fields, parseFilename returns a
\* record, a rejection or an error, and indexes no field outside the list.
C38_DecoderNeverPanics ==
    (lpc = "called" /\ Keep(call.name)) =>
        res.kind \in {"record", "rejected", "error"}

\* C39: non-negative gap duration: every gap held or returned by checkFiles
\* has Starts <= Ends, when it is made and after every shrink or split that
\* rewrote its Starts or Ends with the acquisition time of a refill record.
C39_StartsNotAfterEnds == \A g \in KnownGaps : g.Starts <= g.Ends

====
